---- MODULE Spec2Model ----
(***************************************************************************)
(* Annotation targeting and creation engine of obsidian-pdf-plus:          *)
(*   - AnnotationWriteFileLib (creation pipeline, src/unnamed/part_000)    *)
(*   - PDFExternalLinkPostProcessor.registerEvents (external-link.ts)      *)
(*   - PDFLinkAnnotationModal (link-annotation-modal.ts)                   *)
(*   - ShiftHoverManager.findClosestAnnotationToOffset (part_000)          *)
(*   - ShiftHoverManager.resolveWikilink / resolveInternalLink and the     *)
(*     destination tokens written by the modal and the post-processor      *)
(*   - the coordinate conversions of addStickyNoteAtPosition and           *)
(*     highlightLocation (part_000)                                        *)
(* The program is single threaded: every action below is one synchronous   *)
(* run of code between two suspension points (await) or one event handler. *)
(***************************************************************************)
EXTENDS Integers, Sequences, FiniteSets, TLC

\* ------------------------------------------------------------------ bounds
\* child.pdfViewer.pagesCount of the viewer the calls are made against
PagesCount == 2
\* highest text-run index a selection range may name
MaxRun == 1
\* number of annotations pdfPage.getAnnotations() may return
MaxAnnots == 3

\* ------------------------------------------------------------- value sets
NoId == ""
\* ids the mutation interface hands out (opaque strings)
AnnotIds == {"12R"}
\* errors the mutation interface may reject with
Errors == {"EIO", "ELOCKED"}
NoErr == ""

NoRange == <<-1, -1, -1, -1>>
\* SelectionRange values <<beginIndex, beginOffset, endIndex, endOffset>>:
\* a collapsed range, and ranges covering 1 .. MaxRun + 1 text runs
Ranges == {<<0, 1, 0, 1>>} \cup { <<0, 0, k, 1>> : k \in 0..MaxRun }

\* the destination a caller passes: a DestArray, a string, or {path, subpath}
\* (wikilink: '[[...]]', embed: '![[...]]', url: any other non-empty string)
DestKinds == {"DestArray", "wikilink", "embed", "url", "pathSubpath"}
NoDest == "none"

\* what child.getPage(pageNumber) and its text layer look like
PageStates == {"noView", "noTextLayer", "notLoaded", "noInfo", "ready"}

VARIABLES
    cur,              \* the core operation in flight (its local variables)
    el,               \* live render tree: the element of the call's new annotation
    windowSelection,  \* activeWindow.getSelection(), owned by the host
    modal,            \* PDFLinkAnnotationModal instance
    captured,         \* history: the selectionInfo the modal was constructed with
    annots,           \* findClosestAnnotationToOffset: pdfPage.getAnnotations()
    target,           \* findClosestAnnotationToOffset: offset argument
    closest,          \* findClosestAnnotationToOffset: returned id
    link,             \* resolveWikilink / resolveInternalLink: the argument
    resolved,         \* resolveWikilink / resolveInternalLink: the result
    view,             \* the viewer state a destination token is built from
    libResolved,      \* lib/shift-hover-manager.ts resolveWikilink: the result
    conv,             \* a point on its way through the coordinate conversions
    version,          \* ShiftHoverManager: which of its two versions runs
    isShiftPressed,   \* ShiftHoverManager.isShiftPressed
    highlight,        \* ShiftHoverManager.currentHighlight and the elements
    focused,          \* whether the window has the focus
    shiftHistory,     \* history: the last Shift key or focus-loss event
    workspace,        \* the source viewer's file, the files of the open viewers
    regs,             \* how often the post-processor's listeners are registered
    toRun,            \* mouseover listeners still to run for the event at hand
    pending,          \* the resolution a mouseover listener awaits
    lastEvent,        \* history: the last event or call
    opened            \* history: the openLinkText calls of the last click

vars ==
    <<cur, el, windowSelection, modal, captured, annots, target, closest,
      link, resolved, view, libResolved, conv, version, isShiftPressed,
      highlight, focused, shiftHistory, workspace, regs, toRun, pending,
      lastEvent, opened>>

pipelineVars == <<cur, el, windowSelection, modal, captured>>
closestVars == <<annots, target, closest>>
decodeVars == <<link, resolved, view, libResolved>>
coordVars == <<conv>>
hoverVars ==
    <<version, isShiftPressed, highlight, focused, shiftHistory, workspace,
      regs, toRun, pending, lastEvent, opened>>

\* ---------------------------------------------------------------- records
\* local state of one core operation (AnnotationWriteFileLib method call)
IdleCall ==
    [ op           |-> "none",    \* which method is running
      pc           |-> "idle",    \* idle, awaitIo, ioSettled, inner, done
      dest         |-> NoDest,    \* dest argument as passed by the caller
      destString   |-> NoDest,    \* dest handed to io / to the registration
      hasFile      |-> FALSE,     \* child.file is set
      page         |-> -1,
      pageState    |-> "noView",
      range        |-> NoRange,   \* the range handed to the rectangle computation
      rectArgs     |-> NoRange,   \* history: arguments of computeMergedHighlightRects
      rects        |-> <<>>,      \* rects handed to the annotator
      io           |-> "none",    \* none, pending, ok, err
      ioId         |-> NoId,      \* id the mutation interface resolved with
      ioErr        |-> NoErr,     \* error the mutation interface rejected with
      annotationID |-> NoId,      \* local annotationID of addAnnotationToTextRange
      inner        |-> "none",    \* what addAnnotationToTextRange returned
      result       |-> "none",    \* none, null, undefined, record, id, value, threw
      resultId     |-> NoId,      \* annotation id carried by the result
      thrown       |-> NoErr,     \* error the call rejected with
      steps        |-> <<>>,      \* history: pipeline steps in execution order
      notices      |-> 0,         \* new Notice(...) shown by this call
      errLogs      |-> 0,         \* console.error(...) by this call
      usedLive     |-> FALSE,     \* history: activeWindow.getSelection() was read
      fromModal    |-> FALSE ]    \* history: started by the modal's onSubmit

\* the element, in the live annotation layer, of the annotation the call in
\* flight (or the last one) created; a new creation call starts with none
NoElement ==
    [ id |-> NoId, subtype |-> "none", hasUrl |-> FALSE,
      present   |-> FALSE,   \* the annotation layer holds an element for id
      marked    |-> FALSE,   \* container.dataset.pdfPlusIsAnnotationPostProcessed
      regs      |-> 0,       \* post-processors added to this element
      immediate |-> FALSE,   \* history: the immediate attempt found this element
      deferred  |-> FALSE ]  \* history: the deferred handler visited this element

NoSelection == [kind |-> "null", page |-> -1, range |-> NoRange]
\* null: getSelection() is null; outside: no page/text range under the selection
Selections ==
    {NoSelection, [kind |-> "outside", page |-> -1, range |-> NoRange]}
    \cup [kind : {"text"}, page : 1..PagesCount, range : Ranges]

Step(c, s) == [c EXCEPT !.steps = Append(@, s)]

Returned(c, kind, id) ==
    [Step(c, "return") EXCEPT !.pc = "done", !.result = kind, !.resultId = id]

Threw(c, e) ==
    [Step(c, "throw") EXCEPT !.pc = "done", !.result = "threw", !.thrown = e]

\* one core operation at a time: a caller starts one when none is in flight
CanStart == cur.pc = "idle"

\* ------------------------------------------------- selection to geometry
\* highlight.geometry.computeMergedHighlightRects: one merged rectangle per
\* covered line (a text run per line), none for a collapsed range.  A rect
\* is represented by the index of the line it covers.
computeMergedHighlightRects(r) ==
    IF r[1] = r[3] /\ r[2] = r[4]
    THEN <<>>
    ELSE [i \in 1..(r[3] - r[1] + 1) |-> r[1] + i - 1]

\* mutant: the upper page bound is not checked
RectsAvailable_NoUpperBound(hasFile, pageNumber, pageState) ==
    /\ hasFile
    /\ 1 <= pageNumber
    /\ pageState = "ready"

\* addAnnotationToTextRange, the guards in front of the rectangle computation
RectsAvailable(hasFile, pageNumber, pageState) ==
    /\ hasFile
    /\ 1 <= pageNumber /\ pageNumber <= PagesCount
    /\ pageState = "ready"

\* mutant: the annotator is started before the rectangles are computed
EnterTextRange_PersistFirst(c) ==
    IF RectsAvailable(c.hasFile, c.page, c.pageState)
    THEN LET rects == computeMergedHighlightRects(c.range) IN
         [Step(Step(c, "persist"), "rects") EXCEPT
              !.rectArgs = c.range, !.rects = rects,
              !.io = "pending", !.pc = "awaitIo"]
    ELSE [c EXCEPT !.pc = "inner", !.inner = "undefined"]

\* addAnnotationToTextRange up to `await annotator(child.file, pageNumber, rects)`
EnterTextRange(c) ==
    IF RectsAvailable(c.hasFile, c.page, c.pageState)
    THEN LET rects == computeMergedHighlightRects(c.range) IN
         [Step(Step(c, "rects"), "persist") EXCEPT
              !.rectArgs = c.range, !.rects = rects,
              !.io = "pending", !.pc = "awaitIo"]
    ELSE [c EXCEPT !.pc = "inner", !.inner = "undefined"]

\* ------------------------------------------------------------ registration
\* PDFExternalLinkPostProcessor.registerEvents: the post-processor is added
\* (line 388-393) iff the annotation is a Link with a url; regs counts the
\* calls that take this branch for the element
registerEvents(e) ==
    IF e.subtype = "Link" /\ e.hasUrl
    THEN [e EXCEPT !.regs = @ + 1]
    ELSE e

\* typeof dest === 'string'
IsStringDest(dest) == dest \in {"wikilink", "embed", "url", "empty"}

\* mutant: any string destination is taken for a wikilink
RegistrationWanted_AnyString(annotationID, dest) ==
    /\ annotationID # NoId
    /\ IsStringDest(dest)

\* registerPostProcessorForNewAnnotation, the two early returns
RegistrationWanted(annotationID, dest) ==
    /\ annotationID # NoId
    /\ IsStringDest(dest)
    /\ dest = "wikilink"              \* dest.startsWith('[[')

\* annot && annot.container.dataset.pdfPlusIsAnnotationPostProcessed !== 'true'
ImmediateFinds(e, annotationID) ==
    /\ e.present
    /\ e.id = annotationID
    /\ ~e.marked

\* the element as registerPostProcessorForNewAnnotation leaves it after a
\* successful immediate registration (line 62-63)
AfterImmediate(e) ==
    registerEvents([e EXCEPT !.immediate = TRUE])

\* registerPostProcessorForNewAnnotation(child, pageNumber, annotationID, dest):
\* the pair <<call, element>> it leaves
registerPostProcessorForNewAnnotation(c, e, annotationID, dest) ==
    IF ~RegistrationWanted(annotationID, dest)
    THEN <<c, e>>
    ELSE IF ImmediateFinds(e, annotationID)
         THEN <<Step(Step(c, "lookup"), "register"), AfterImmediate(e)>>
         ELSE <<Step(c, "lookup"),
                IF e.present /\ e.id = annotationID
                THEN [e EXCEPT !.immediate = TRUE] ELSE e>>

\* the 'annotationlayerrendered' handler (pdf-internals.ts): registers the
\* post-processor of an element that does not carry the marker, then sets it
deferredRegistration(e) ==
    IF e.marked
    THEN [e EXCEPT !.deferred = TRUE]
    ELSE [registerEvents(e) EXCEPT !.marked = TRUE, !.deferred = TRUE]

\* ------------------------------------------------------ creation: entries
\* addAnnotationToSelection up to the call of addAnnotationToTextRange
\* (lines 217-257); c carries op and dest
addAnnotationToSelection(c, sel, childFound, hasFile, pageState) ==
    LET c0 == [c EXCEPT !.usedLive = TRUE] IN
    IF sel.kind = "null" THEN Returned(c0, "null", NoId)
    ELSE IF sel.kind = "outside" THEN Returned(c0, "null", NoId)
    ELSE IF ~childFound THEN Returned(Step(c0, "selection"), "null", NoId)
    ELSE EnterTextRange([Step(c0, "selection") EXCEPT
             !.hasFile = hasFile, !.page = sel.page,
             !.pageState = pageState, !.range = sel.range])

\* addTextMarkupAnnotationToSelection(subtype, colorName)
AddTextMarkupAnnotationToSelection ==
    /\ CanStart
    /\ \E childFound, hasFile \in BOOLEAN, pageState \in PageStates :
          cur' = addAnnotationToSelection(
                     [IdleCall EXCEPT !.op = "markupSel"],
                     windowSelection, childFound, hasFile, pageState)
    /\ el' = NoElement
    /\ UNCHANGED <<windowSelection, modal, captured, closestVars, decodeVars, coordVars, hoverVars>>

\* addLinkAnnotationToSelection(dest, contents)
AddLinkAnnotationToSelection ==
    /\ CanStart
    /\ \E dest \in {"DestArray", "wikilink", "embed", "url"},
          childFound, hasFile \in BOOLEAN, pageState \in PageStates :
          cur' = addAnnotationToSelection(
                     [IdleCall EXCEPT !.op = "linkSel", !.dest = dest,
                                      !.destString = dest],
                     windowSelection, childFound, hasFile, pageState)
    /\ el' = NoElement
    /\ UNCHANGED <<windowSelection, modal, captured, closestVars, decodeVars, coordVars, hoverVars>>

\* `[[${dest.path}${dest.subpath}]]` for a {path, subpath} object (line 192-197)
DestStringOf(dest) == IF dest = "pathSubpath" THEN "wikilink" ELSE dest

\* mutant: the two offsets are passed in each other's place
TextRangeArgs_Swapped(selectionInfo) ==
    <<selectionInfo[1], selectionInfo[4], selectionInfo[3], selectionInfo[2]>>

\* the four arguments addLinkAnnotationToTextRange passes on (line 205)
TextRangeArgs(selectionInfo) ==
    <<selectionInfo[1], selectionInfo[2], selectionInfo[3], selectionInfo[4]>>

\* addLinkAnnotationToTextRange up to its first await (lines 185-205)
addLinkAnnotationToTextRange(hasFile, pageNumber, pageState, selectionInfo, dest, viaModal) ==
    LET c == [IdleCall EXCEPT !.op = "linkRange", !.dest = dest,
                              !.hasFile = hasFile, !.fromModal = viaModal] IN
    IF ~hasFile
    THEN Returned(c, "null", NoId)
    ELSE EnterTextRange([Step(c, "selection") EXCEPT
             !.destString = DestStringOf(dest), !.page = pageNumber,
             !.pageState = pageState, !.range = TextRangeArgs(selectionInfo)])

\* a caller invokes addLinkAnnotationToTextRange with a range it kept
AddLinkAnnotationToTextRange ==
    /\ CanStart
    /\ \E hasFile \in BOOLEAN, pageNumber \in 0..(PagesCount + 1),
          pageState \in PageStates, selectionInfo \in Ranges, dest \in DestKinds :
          cur' = addLinkAnnotationToTextRange(
                     hasFile, pageNumber, pageState, selectionInfo, dest, FALSE)
    /\ el' = NoElement
    /\ UNCHANGED <<windowSelection, modal, captured, closestVars, decodeVars, coordVars, hoverVars>>

\* rects a caller of addLinkAnnotation computed beforehand
CallerRects == {<<0>>, <<0, 1>>}

\* addLinkAnnotation(file, pageNumber, rects, dest, ...) up to `await io.addLinkAnnotation`
AddLinkAnnotation ==
    /\ CanStart
    /\ \E pageNumber \in 1..PagesCount, rects \in CallerRects,
          dest \in {"DestArray", "wikilink", "embed", "url"} :
          cur' = [Step([IdleCall EXCEPT !.op = "linkDirect"], "persist") EXCEPT
                     !.dest = dest, !.destString = dest, !.hasFile = TRUE,
                     !.page = pageNumber, !.rects = rects,
                     !.io = "pending", !.pc = "awaitIo"]
    /\ el' = NoElement
    /\ UNCHANGED <<windowSelection, modal, captured, closestVars, decodeVars, coordVars, hoverVars>>

\* addStickyNoteAtPosition up to `await io.addTextAnnotation` (lines 132-161)
AddStickyNoteAtPosition ==
    /\ CanStart
    /\ \E hasFile \in BOOLEAN, pageNumber \in 1..PagesCount,
          pageState \in {"noView", "ready"} :
          LET c == [IdleCall EXCEPT !.op = "sticky", !.hasFile = hasFile,
                        !.page = pageNumber, !.pageState = pageState] IN
          cur' = IF ~hasFile THEN Returned(c, "undefined", NoId)
                 ELSE IF pageState = "noView" THEN Returned(c, "undefined", NoId)
                 ELSE [Step(c, "persist") EXCEPT !.io = "pending", !.pc = "awaitIo"]
    /\ el' = NoElement
    /\ UNCHANGED <<windowSelection, modal, captured, closestVars, decodeVars, coordVars, hoverVars>>

\* deleteAnnotation / getAnnotationContents / setAnnotationContents up to the await
PlainOps == {"delete", "getContents", "setContents"}

AnnotationContentsOp ==
    /\ CanStart
    /\ \E op \in PlainOps, pageNumber \in 1..PagesCount :
          cur' = [IdleCall EXCEPT !.op = op, !.hasFile = TRUE, !.page = pageNumber,
                                  !.io = "pending", !.pc = "awaitIo"]
    /\ UNCHANGED <<el, windowSelection, modal, captured, closestVars, decodeVars, coordVars, hoverVars>>

\* ------------------------------------------------ the mutation interface
TextRangeOps == {"markupSel", "linkSel", "linkRange"}
CreationOps == TextRangeOps \cup {"linkDirect", "sticky"}

\* the annotation object io writes for a creation operation
WrittenElement(c, id) ==
    [NoElement EXCEPT
        !.id = id,
        !.subtype = CASE c.op = "markupSel" -> "Highlight"
                      [] c.op = "sticky"    -> "Text"
                      [] OTHER              -> "Link",
        !.hasUrl = c.op \in {"linkSel", "linkRange", "linkDirect"}
                   /\ IsStringDest(c.destString)]

\* the pending io promise resolves (IPdfIo, lines 342-355)
IoResolve ==
    /\ cur.pc = "awaitIo"
    /\ \E id \in (IF cur.op \in CreationOps THEN AnnotIds \cup {NoId} ELSE {NoId}) :
          /\ cur' = [cur EXCEPT !.io = "ok", !.ioId = id, !.pc = "ioSettled"]
          /\ el' = IF cur.op \in CreationOps /\ id # NoId
                   THEN WrittenElement(cur, id) ELSE el
    /\ UNCHANGED <<windowSelection, modal, captured, closestVars, decodeVars, coordVars, hoverVars>>

\* the pending io promise rejects with an I/O error
IoReject ==
    /\ cur.pc = "awaitIo"
    /\ \E e \in Errors :
          cur' = [cur EXCEPT !.io = "err", !.ioErr = e, !.pc = "ioSettled"]
    /\ UNCHANGED <<el, windowSelection, modal, captured, closestVars, decodeVars, coordVars, hoverVars>>

\* ------------------------------------------------- creation: continuations
\* mutant: the id is assigned before the outcome of the annotator is known
AfterAnnotator_OptimisticId(c) ==
    IF c.io = "ok"
    THEN [Step(c, "persisted") EXCEPT
             !.annotationID = c.ioId, !.inner = "record", !.pc = "inner"]
    ELSE [Step(c, "notice") EXCEPT
             !.errLogs = @ + 2, !.notices = @ + 1, !.annotationID = "12R",
             !.inner = "record", !.pc = "inner"]

\* mutant: the catch block shows the notice next to each console.error
AfterAnnotator_TwoNotices(c) ==
    IF c.io = "ok"
    THEN [Step(c, "persisted") EXCEPT
             !.annotationID = c.ioId, !.inner = "record", !.pc = "inner"]
    ELSE [Step(c, "notice") EXCEPT
             !.errLogs = @ + 2, !.notices = @ + 2,
             !.inner = "record", !.pc = "inner"]

\* addAnnotationToTextRange after the await: try/catch and return (lines 305-314)
AfterAnnotator(c) ==
    IF c.io = "ok"
    THEN [Step(c, "persisted") EXCEPT
             !.annotationID = c.ioId, !.inner = "record", !.pc = "inner"]
    ELSE [Step(c, "notice") EXCEPT
             !.errLogs = @ + 2, !.notices = @ + 1,
             !.inner = "record", !.pc = "inner"]

ResumeTextRange ==
    /\ cur.pc = "ioSettled"
    /\ cur.op \in TextRangeOps
    /\ cur' = AfterAnnotator(cur)
    /\ UNCHANGED <<el, windowSelection, modal, captured, closestVars, decodeVars, coordVars, hoverVars>>

\* whether the caller of addAnnotationToTextRange goes on to register:
\* `result && result.child && result.annotationID` (line 86) and
\* `result && result.annotationID` (line 208)
OuterRegisters(c) ==
    /\ c.op \in {"linkSel", "linkRange"}
    /\ (c.op = "linkRange" => c.inner = "record")
    /\ c.annotationID # NoId

\* what the text-range callers return (lines 90, 212, 260-265)
OuterResultKind(c) ==
    IF c.op = "linkRange" /\ c.inner = "undefined" THEN "undefined" ELSE "record"

\* the code after `await this.addAnnotationToTextRange(...)` in
\* addAnnotationToSelection / addLinkAnnotationToSelection / addLinkAnnotationToTextRange
ResumeOuter ==
    /\ cur.pc = "inner"
    /\ LET p == IF OuterRegisters(cur)
                THEN registerPostProcessorForNewAnnotation(
                         cur, el, cur.annotationID, cur.destString)
                ELSE <<cur, el>> IN
       /\ cur' = Returned(p[1], OuterResultKind(cur), cur.annotationID)
       /\ el' = p[2]
    /\ UNCHANGED <<windowSelection, modal, captured, closestVars, decodeVars, coordVars, hoverVars>>

\* addLinkAnnotation after `await io.addLinkAnnotation` (lines 96-111)
ResumeAddLinkAnnotation ==
    /\ cur.pc = "ioSettled"
    /\ cur.op = "linkDirect"
    /\ \E childFound \in BOOLEAN :
          IF cur.io = "err"
          THEN /\ cur' = Threw(cur, cur.ioErr)
               /\ el' = el
          ELSE LET c == [Step(cur, "persisted") EXCEPT !.annotationID = cur.ioId]
                   p == IF childFound /\ c.annotationID # NoId
                        THEN registerPostProcessorForNewAnnotation(
                                 c, el, c.annotationID, c.dest)
                        ELSE <<c, el>> IN
               /\ cur' = Returned(p[1], "id", c.annotationID)
               /\ el' = p[2]
    /\ UNCHANGED <<windowSelection, modal, captured, closestVars, decodeVars, coordVars, hoverVars>>

\* addStickyNoteAtPosition after the await: try/catch (lines 153-167)
AfterAddTextAnnotation(c) ==
    IF c.io = "ok"
    THEN Returned([Step(c, "persisted") EXCEPT !.annotationID = c.ioId], "id", c.ioId)
    ELSE Returned([Step(c, "notice") EXCEPT !.notices = @ + 1, !.errLogs = @ + 1],
                  "undefined", NoId)

ResumeStickyNote ==
    /\ cur.pc = "ioSettled"
    /\ cur.op = "sticky"
    /\ cur' = AfterAddTextAnnotation(cur)
    /\ UNCHANGED <<el, windowSelection, modal, captured, closestVars, decodeVars, coordVars, hoverVars>>

\* mutant: the rejection is caught and a normal value returned
AfterPlainIo_Swallow(c) == Returned(c, "value", NoId)

\* deleteAnnotation / getAnnotationContents / setAnnotationContents after the
\* await (lines 326-339): the awaited rejection propagates
AfterPlainIo(c) ==
    IF c.io = "ok" THEN Returned(c, "value", NoId) ELSE Threw(c, c.ioErr)

ResumeAnnotationContentsOp ==
    /\ cur.pc = "ioSettled"
    /\ cur.op \in PlainOps
    /\ cur' = AfterPlainIo(cur)
    /\ UNCHANGED <<el, windowSelection, modal, captured, closestVars, decodeVars, coordVars, hoverVars>>

\* ------------------------------------------------------- the render surface
\* the viewer reloads the saved file and renders the annotation layer anew:
\* the annotation gets a fresh element
LayerRender ==
    /\ el.id # NoId
    /\ el' = [el EXCEPT !.present = TRUE, !.marked = FALSE, !.regs = 0,
                        !.immediate = FALSE, !.deferred = FALSE]
    /\ UNCHANGED <<cur, windowSelection, modal, captured, closestVars, decodeVars, coordVars, hoverVars>>

\* the 'annotationlayerrendered' event reaches its handler
AnnotationLayerRendered ==
    /\ el.present
    /\ el' = deferredRegistration(el)
    /\ UNCHANGED <<cur, windowSelection, modal, captured, closestVars, decodeVars, coordVars, hoverVars>>

\* the caller is done with the result of the finished call
CallReturns ==
    /\ cur.pc = "done"
    /\ cur' = IdleCall
    /\ el' = NoElement
    /\ UNCHANGED <<windowSelection, modal, captured, closestVars, decodeVars, coordVars, hoverVars>>

\* the user changes or loses the live selection
SelectionChange ==
    /\ \E sel \in Selections : windowSelection' = sel
    /\ UNCHANGED <<cur, el, modal, captured, closestVars, decodeVars, coordVars, hoverVars>>

\* ------------------------------------------------ PDFLinkAnnotationModal
\* contents of the 'Link destination' text field: empty, whitespace only,
\* a wikilink, a wikilink with surrounding blanks, any other text
UrlTexts == {"", "blank", "wikilink", "paddedWikilink", "url"}

\* this.externalUrl.trim() as a destination kind
TrimmedDest(text) ==
    CASE text \in {"", "blank"}                  -> "empty"
      [] text \in {"wikilink", "paddedWikilink"} -> "wikilink"
      [] OTHER                                   -> "url"

\* field initialisers and constructor (lines 13-33)
NewModal(selectionInfo) ==
    [ open          |-> TRUE,
      destType      |-> "internal",
      destArraySet  |-> FALSE,        \* this.destArray !== null
      externalUrl   |-> "",
      selectionInfo |-> selectionInfo,
      onSubmitCalls |-> 0,            \* history: calls of this.onSubmit
      urlNotice     |-> FALSE,        \* history: the 'Please enter a URL' notice
      lastDest      |-> NoDest ]      \* history: dest of the last onSubmit call

NoModal == [NewModal(NoRange) EXCEPT !.open = FALSE]

\* a command constructs and opens the modal, handing it the range it kept
\* (one user command at a time: no creation call is in flight)
ModalOpen ==
    /\ ~modal.open
    /\ CanStart
    /\ \E selectionInfo \in Ranges \cup {NoRange} :
          /\ modal' = NewModal(selectionInfo)
          /\ captured' = selectionInfo
    /\ UNCHANGED <<cur, el, windowSelection, closestVars, decodeVars, coordVars, hoverVars>>

\* the link-type dropdown's onChange (lines 53-56)
ModalSetDestType ==
    /\ modal.open
    /\ \E value \in {"internal", "external"} :
          modal' = [modal EXCEPT !.destType = value]
    /\ UNCHANGED <<cur, el, windowSelection, captured, closestVars, decodeVars, coordVars, hoverVars>>

\* the target-page field's onChange with a valid page (lines 169-178)
ModalSetTargetPage ==
    /\ modal.open
    /\ modal.destType = "internal"
    /\ modal' = [modal EXCEPT !.destArraySet = TRUE]
    /\ UNCHANGED <<cur, el, windowSelection, captured, closestVars, decodeVars, coordVars, hoverVars>>

\* the destination field's onChange (lines 270-272)
ModalSetExternalUrl ==
    /\ modal.open
    /\ modal.destType = "external"
    /\ \E value \in UrlTexts : modal' = [modal EXCEPT !.externalUrl = value]
    /\ UNCHANGED <<cur, el, windowSelection, captured, closestVars, decodeVars, coordVars, hoverVars>>

\* whether submit() calls onSubmit (lines 299-323): `if (this.externalUrl)`
SubmitCallsOnSubmit(m) == m.destType = "internal" \/ m.externalUrl # ""

\* the dest submit() passes to onSubmit
SubmitDest(m) ==
    IF m.destType = "internal" THEN "DestArray" ELSE TrimmedDest(m.externalUrl)

\* the selectionInfo submit() passes to onSubmit (lines 304, 314, 317)
SubmitSelectionInfo(m) == m.selectionInfo

\* the command's onSubmit callback: a kept range goes to
\* addLinkAnnotationToTextRange, otherwise the live selection is used
onSubmit(dest, selectionInfo, sel, childFound, hasFile, pageNumber, pageState) ==
    IF selectionInfo # NoRange
    THEN addLinkAnnotationToTextRange(
             hasFile, pageNumber, pageState, selectionInfo, dest, TRUE)
    ELSE [addAnnotationToSelection(
             [IdleCall EXCEPT !.op = "linkSel", !.dest = dest, !.destString = dest],
             sel, childFound, hasFile, pageState)
          EXCEPT !.fromModal = TRUE]

\* submit() (lines 289-327), with the onSubmit call it makes
ModalSubmit ==
    /\ modal.open
    /\ CanStart
    /\ IF SubmitCallsOnSubmit(modal)
       THEN /\ \E childFound, hasFile \in BOOLEAN, pageNumber \in 1..PagesCount,
                  pageState \in PageStates :
                  cur' = onSubmit(SubmitDest(modal), SubmitSelectionInfo(modal),
                                  windowSelection, childFound, hasFile,
                                  pageNumber, pageState)
            /\ modal' = [modal EXCEPT
                            !.open = FALSE,
                            !.destArraySet = (modal.destType = "internal") \/ @,
                            !.onSubmitCalls = @ + 1,
                            !.lastDest = SubmitDest(modal)]
       ELSE /\ cur' = cur
            /\ modal' = [modal EXCEPT !.urlNotice = TRUE]
    /\ el' = IF SubmitCallsOnSubmit(modal) THEN NoElement ELSE el
    /\ UNCHANGED <<windowSelection, captured, closestVars, decodeVars, coordVars, hoverVars>>

\* the Cancel button (line 342)
ModalCancel ==
    /\ modal.open
    /\ modal' = [modal EXCEPT !.open = FALSE]
    /\ UNCHANGED <<cur, el, windowSelection, captured, closestVars, decodeVars, coordVars, hoverVars>>

\* ------------------------- ShiftHoverManager.findClosestAnnotationToOffset
Undef == -1
\* Infinity, the distance when neither offset.left nor offset.top is given
Infinity == -2

textMarkupSubtypes == {"Highlight", "Underline", "Squiggly", "StrikeOut"}

TargetLefts == {Undef, 1, 2}
TargetTops == {Undef, 1, 3}

\* the annotations getAnnotations() reports: subtype (Text is a sticky note)
\* and rect as [left, bottom, right, top]; a rect of fewer than four
\* components stands for a missing or malformed one
AnnotationChoices ==
    { <<"Highlight", <<2, 0, 4, 2>>>>, <<"Highlight", <<0, 0, 8, 2>>>>,
      <<"Highlight", <<0, 0, 2>>>>,
      <<"Link", <<2, 0, 4, 2>>>>, <<"Link", <<0, 0, 2, 2, 9>>>>,
      <<"Text", <<2, 0, 4, 2>>>>, <<"Text", <<0, 0, 8, 2>>>>,
      <<"Text", <<0, 0, 2>>>> }

AnnotationsOfLen(n) ==
    { [i \in 1..n |-> [id |-> i, subtype |-> f[i][1], rect |-> f[i][2]]] :
        f \in [1..n -> AnnotationChoices] }

AnnotationLists == UNION { AnnotationsOfLen(n) : n \in 0..MaxAnnots }

Abs(x) == IF x < 0 THEN -x ELSE x

\* mutant: only a rect of more than four components passes
HasRect_MoreThanFour(annot) == Len(annot.rect) > 4

\* the guard of the loop's `continue` (line 758)
HasRect(annot) == Len(annot.rect) >= 4

\* mutant: the edges of the rect do not count
PointInRect_Exclusive(offset, rect) ==
    /\ offset.left > rect[1] /\ offset.left < rect[3]
    /\ offset.top > rect[2] /\ offset.top < rect[4]

\* offset.left >= left && offset.left <= right && offset.top >= bottom && offset.top <= top
PointInRect(offset, rect) ==
    /\ offset.left >= rect[1] /\ offset.left <= rect[3]
    /\ offset.top >= rect[2] /\ offset.top <= rect[4]

\* containsPoint as the loop computes it (lines 769-776)
ContainsPoint(offset, rect) ==
    /\ offset.left # Undef
    /\ offset.top # Undef
    /\ PointInRect(offset, rect)

\* distance as the loop computes it (lines 764-789), on a scale that keeps
\* it an integer: with dx2 = 2 * (offset.left - centerX), dy2 likewise, the
\* Euclidean distance d is kept as (2d)^2, a single-axis distance d as 2d
Distance(offset, rect) ==
    LET dx2 == 2 * offset.left - (rect[1] + rect[3])
        dy2 == 2 * offset.top - (rect[4] + rect[2]) IN
    IF offset.left # Undef /\ offset.top # Undef
    THEN IF PointInRect(offset, rect) THEN 0 ELSE dx2 * dx2 + dy2 * dy2
    ELSE IF offset.top # Undef THEN Abs(dy2)
    ELSE IF offset.left # Undef THEN Abs(dx2)
    ELSE Infinity

\* one entry of candidates / textAnnotationCandidates (lines 793, 797)
CandidateOf(annot, offset) ==
    [ id            |-> annot.id,
      distance      |-> Distance(offset, annot.rect),
      isTextMarkup  |-> annot.subtype \in textMarkupSubtypes,
      containsPoint |-> ContainsPoint(offset, annot.rect),
      subtype       |-> annot.subtype ]

\* mutant: sticky notes are filed with the other candidates
IsNoteLike_Never(annot) == FALSE

\* whether the loop files an annotation under textAnnotationCandidates (line 792)
IsNoteLike(annot) == annot.subtype = "Text"

\* mutant: only text markup annotations become candidates
Candidates_MarkupOnly(annotations, offset) ==
    LET kept == SelectSeq(annotations,
                    LAMBDA a : HasRect(a) /\ a.subtype \in textMarkupSubtypes) IN
    [i \in 1..Len(kept) |-> CandidateOf(kept[i], offset)]

\* the two arrays the loop fills, in the order of the annotations (lines 757-798)
Candidates(annotations, offset) ==
    LET kept == SelectSeq(annotations, LAMBDA a : HasRect(a) /\ ~IsNoteLike(a)) IN
    [i \in 1..Len(kept) |-> CandidateOf(kept[i], offset)]

TextAnnotationCandidates(annotations, offset) ==
    LET kept == SelectSeq(annotations, LAMBDA a : HasRect(a) /\ IsNoteLike(a)) IN
    [i \in 1..Len(kept) |-> CandidateOf(kept[i], offset)]

\* sign of a.distance - b.distance; Infinity - Infinity is NaN, which
\* Array.prototype.sort takes as 0
DistanceOrder(a, b) ==
    IF a.distance = b.distance THEN 0
    ELSE IF a.distance = Infinity THEN 1
    ELSE IF b.distance = Infinity THEN -1
    ELSE IF a.distance < b.distance THEN -1 ELSE 1

\* mutant: text markup gets no priority
CompareCandidates_NoMarkupPriority(a, b) ==
    IF a.containsPoint # b.containsPoint
    THEN (IF a.containsPoint THEN -1 ELSE 1)
    ELSE DistanceOrder(a, b)

\* the comparator of candidates.sort (lines 824-835)
CompareCandidates(a, b) ==
    IF a.containsPoint # b.containsPoint
    THEN (IF a.containsPoint THEN -1 ELSE 1)
    ELSE IF a.isTextMarkup # b.isTextMarkup
    THEN (IF a.isTextMarkup THEN -1 ELSE 1)
    ELSE DistanceOrder(a, b)

\* the comparator of textAnnotationCandidates.sort (lines 808-813)
CompareTextCandidates(a, b) ==
    IF a.containsPoint # b.containsPoint
    THEN (IF a.containsPoint THEN -1 ELSE 1)
    ELSE DistanceOrder(a, b)

Compare(a, b, notes) ==
    IF notes THEN CompareTextCandidates(a, b) ELSE CompareCandidates(a, b)

\* Array.prototype.sort: a stable sort, here by insertion
RECURSIVE InsertStable(_, _, _)
InsertStable(x, sorted, notes) ==
    IF sorted = <<>> THEN <<x>>
    ELSE IF Compare(x, Head(sorted), notes) < 0
         THEN <<x>> \o sorted
         ELSE <<Head(sorted)>> \o InsertStable(x, Tail(sorted), notes)

\* mutant: the sort takes the elements from the front, so that equal
\* elements come out in reverse order
RECURSIVE SortStable_FromFront(_, _)
SortStable_FromFront(s, notes) ==
    IF s = <<>> THEN <<>>
    ELSE InsertStable(Head(s), SortStable_FromFront(Tail(s), notes), notes)

RECURSIVE SortStable(_, _)
SortStable(s, notes) ==
    IF s = <<>> THEN <<>>
    ELSE InsertStable(s[Len(s)], SortStable(SubSeq(s, 1, Len(s) - 1), notes), notes)

NullId == 0

\* mutant: a single candidate is not enough to keep the notes out
UsesFallback_OffByOne(candidates) == Len(candidates) <= 1

\* which array the result is taken from (lines 800-821): the note-like one
\* only if candidates is empty
UsesFallback(candidates) == Len(candidates) = 0

\* mutant: the fallback takes the first sticky note without sorting
findClosestAnnotationToOffset_UnsortedFallback(pageView, annotations, offset) ==
    IF ~pageView THEN NullId
    ELSE IF Len(annotations) = 0 THEN NullId
    ELSE LET candidates == Candidates(annotations, offset)
             textAnnotationCandidates == TextAnnotationCandidates(annotations, offset) IN
         IF UsesFallback(candidates)
         THEN IF Len(textAnnotationCandidates) = 0 THEN NullId
              ELSE textAnnotationCandidates[1].id
         ELSE SortStable(candidates, FALSE)[1].id

\* findClosestAnnotationToOffset(child, page, offset) for a page whose
\* getAnnotations() gives `annotations` (lines 730-845)
findClosestAnnotationToOffset(pageView, annotations, offset) ==
    IF ~pageView THEN NullId
    ELSE IF Len(annotations) = 0 THEN NullId
    ELSE LET candidates == Candidates(annotations, offset)
             textAnnotationCandidates == TextAnnotationCandidates(annotations, offset) IN
         IF UsesFallback(candidates)
         THEN IF Len(textAnnotationCandidates) = 0 THEN NullId
              ELSE SortStable(textAnnotationCandidates, TRUE)[1].id
         ELSE SortStable(candidates, FALSE)[1].id

NotAsked ==
    [done |-> FALSE, id |-> NullId, pageView |-> FALSE,
     candidates |-> <<>>, textAnnotationCandidates |-> <<>>]

\* a caller asks for the annotation closest to the offset
FindClosestAnnotationToOffset ==
    /\ ~closest.done
    /\ \E pageView \in BOOLEAN :
          closest' =
              [done |-> TRUE,
               id |-> findClosestAnnotationToOffset(pageView, annots, target),
               pageView |-> pageView,
               candidates |->
                   IF pageView THEN Candidates(annots, target) ELSE <<>>,
               textAnnotationCandidates |->
                   IF pageView THEN TextAnnotationCandidates(annots, target)
                   ELSE <<>>]
    /\ UNCHANGED <<annots, target, pipelineVars, decodeVars, coordVars, hoverVars>>

\* ------------------ ShiftHoverManager.resolveWikilink / resolveInternalLink
\* most key=value pairs of one subpath
MaxPairs == 3

\* NaN, what parseFloat gives for a text without a numeric prefix
NaN == -3

\* a subpath is '#' followed by key=value pairs joined by '&'; a value is the
\* sequence of its comma-separated components ("" is an empty component)
Keys == {"page", "annotation", "offset", "rect", "subpage"}

PageValues == { <<"3">>, <<"a">>, <<"">> }
AnnotationValues == { <<"12R">>, <<"">> }
OffsetValues ==
    { <<"5", "6", "1">>, <<"", "6", "">>, <<"5", "", "">>, <<"0", "6", "">>,
      <<"", "", "">>, <<"a", "6", "">>, <<"a", "b", "">>, <<" ", "6", "">>,
      <<"5">>, <<"">> }
RectValues ==
    { <<"1", "2", "3", "4">>, <<"a", "b", "c">>, <<"1", "2", "3">>,
      <<"1", "a", "3", "4">>, <<"1", "2", "3", "4", "5">>, <<"1", "2", "3", "4x">> }
SubpageValues == { <<"9">> }

ValuesOf(key) ==
    CASE key = "page" -> PageValues
      [] key = "annotation" -> AnnotationValues
      [] key = "offset" -> OffsetValues
      [] key = "rect" -> RectValues
      [] key = "subpage" -> SubpageValues

Pairs == UNION { { [key |-> k, value |-> v] : v \in ValuesOf(k) } : k \in Keys }

\* the subpaths of n pairs, no key twice
SubpathsOfLen(n) ==
    { t \in [1..n -> Pairs] : \A i, j \in 1..n : t[i].key = t[j].key => i = j }

Subpaths == UNION { SubpathsOfLen(n) : n \in 0..MaxPairs }

\* the decimal texts the values are made of
Decimals == ("0" :> 0) @@ ("1" :> 1) @@ ("2" :> 2) @@ ("3" :> 3) @@ ("4" :> 4)
            @@ ("5" :> 5) @@ ("6" :> 6) @@ ("9" :> 9)
            @@ ("100" :> 100) @@ ("200" :> 200)

\* the '|alias' segment a wikilink may carry before its closing brackets
AliasText == "|A"

\* the texts a component of a value may be, the alias segment not counted
ComponentTexts ==
    DOMAIN Decimals \cup {"", " ", "a", "b", "c", "4x", "12R", "1.5"}

\* the part of a text in front of its '|': no number and no run of digits
\* reaches over a '|'
Unaliased ==
    [s \in { t \o AliasText : t \in ComponentTexts } |->
        CHOOSE t \in ComponentTexts : s = t \o AliasText]

BeforeBar(s) == IF s \in DOMAIN Unaliased THEN Unaliased[s] ELSE s

\* String.prototype.trim on a component
trim(s) ==
    IF s = " " THEN ""
    ELSE IF s = " " \o AliasText THEN AliasText
    ELSE s

\* parseFloat: the number a text starts with, NaN if it starts with none
\* (the code hands it the first two components of an offset and the
\* components of a rect, never an annotation id or a zoom)
parseFloat(s) ==
    IF BeforeBar(s) \in DOMAIN Decimals THEN Decimals[BeforeBar(s)]
    ELSE IF BeforeBar(s) = "4x" THEN 4
    ELSE NaN

isNaN(n) == n = NaN

\* whether (\d+) matches at the start of a value, and parseInt of the match
StartsWithDigits(value) == BeforeBar(value[1]) \in DOMAIN Decimals
parseInt(value) == Decimals[BeforeBar(value[1])]

\* template literal `${n}` of a number
ToText(n) == CHOOSE s \in DOMAIN Decimals : Decimals[s] = n

\* the text of a value is empty: ([^&]+) does not match it
EmptyText(value) == value = <<"">>

\* the key text ends in `name`, so that the unanchored pattern `name=` matches in it
KeyEndsIn(key, name) == key = name \/ (key = "subpage" /\ name = "page")

\* String.prototype.match with /<name>=([^&]+)/ or /page=(\d+)/: the index of
\* the leftmost pair the pattern matches in, 0 if there is none
Match(pairs, name) ==
    LET hits == { i \in 1..Len(pairs) :
                    /\ KeyEndsIn(pairs[i].key, name)
                    /\ IF name = "page" THEN StartsWithDigits(pairs[i].value)
                       ELSE ~EmptyText(pairs[i].value) } IN
    IF hits = {} THEN 0 ELSE CHOOSE i \in hits : \A j \in hits : i <= j

\* String.prototype.match with /#page=(\d+)/: the pattern holds the '#' the
\* subpath starts with, so only the first pair can match
MatchHashPage(pairs) ==
    IF Len(pairs) >= 1 /\ pairs[1].key = "page" /\ StartsWithDigits(pairs[1].value)
    THEN 1 ELSE 0

\* ---- the decoded fields
NoOffset == [defined |-> FALSE, left |-> Undef, top |-> Undef]
NoRect ==
    [defined |-> FALSE, left |-> Undef, bottom |-> Undef, right |-> Undef, top |-> Undef]

\* leftStr && leftStr !== '' ? parseFloat(leftStr) : undefined, then the
\* test `!== undefined && !isNaN(...)`: Undef unless the component is a number
OffsetPart(parts, k) ==
    LET str == IF k <= Len(parts) THEN trim(parts[k]) ELSE "" IN
    IF str = "" THEN Undef
    ELSE IF isNaN(parseFloat(str)) THEN Undef
    ELSE parseFloat(str)

\* mutant: an empty component is taken as 0
OffsetOf_EmptyIsZero(pairs) ==
    LET m == Match(pairs, "offset") IN
    IF m = 0 THEN NoOffset
    ELSE LET parts == pairs[m].value
             zero(k) == IF k <= Len(parts) /\ trim(parts[k]) = "" THEN 0
                        ELSE OffsetPart(parts, k) IN
         IF zero(1) = Undef /\ zero(2) = Undef THEN NoOffset
         ELSE [defined |-> TRUE, left |-> zero(1), top |-> zero(2)]

\* the offset of the result (part_000 lines 606-619 and 682-695)
OffsetOf(pairs) ==
    LET m == Match(pairs, "offset") IN
    IF m = 0 THEN NoOffset
    ELSE LET left == OffsetPart(pairs[m].value, 1)
             top == OffsetPart(pairs[m].value, 2) IN
         IF left = Undef /\ top = Undef THEN NoOffset
         ELSE [defined |-> TRUE, left |-> left, top |-> top]

\* mutant: components beyond the fourth are let through
RectOf_AtLeastFour(pairs) ==
    LET m == Match(pairs, "rect") IN
    IF m = 0 THEN NoRect
    ELSE LET rectParts == [k \in 1..Len(pairs[m].value) |->
                              parseFloat(trim(pairs[m].value[k]))] IN
         IF Len(rectParts) >= 4 /\ \A k \in 1..4 : ~isNaN(rectParts[k])
         THEN [defined |-> TRUE, left |-> rectParts[1], bottom |-> rectParts[2],
               right |-> rectParts[3], top |-> rectParts[4]]
         ELSE NoRect

\* the rect of the result (part_000 lines 621-633 and 697-709)
RectOf(pairs) ==
    LET m == Match(pairs, "rect") IN
    IF m = 0 THEN NoRect
    ELSE LET rectParts == [k \in 1..Len(pairs[m].value) |->
                              parseFloat(trim(pairs[m].value[k]))] IN
         IF Len(rectParts) = 4 /\ \A k \in 1..4 : ~isNaN(rectParts[k])
         THEN [defined |-> TRUE, left |-> rectParts[1], bottom |-> rectParts[2],
               right |-> rectParts[3], top |-> rectParts[4]]
         ELSE NoRect

\* annotMatch ? annotMatch[1] : undefined
AnnotationIdOf(pairs) ==
    LET m == Match(pairs, "annotation") IN
    IF m = 0 THEN NoId ELSE pairs[m].value[1]

\* ---- files
NoFile == ""
SourceFile == "A.pdf"
LinkPaths == {"Notes.pdf", "Gone.pdf", ""}
\* the file path of a link text that starts with '#'
WholeLinktext == "#"

\* app.metadataCache.getFirstLinkpathDest(linkpath, sourceFile.path): the
\* vault holds A.pdf and Notes.pdf
getFirstLinkpathDest(linkpath) ==
    IF linkpath \in {"Notes.pdf", "A.pdf"} THEN linkpath ELSE NoFile

\* app.metadataCache.fileToLinktext(file, sourcePath)
fileToLinktext(file) == file

\* ---- results
NullResult ==
    [null |-> TRUE, file |-> NoFile, page |-> 0, annotationId |-> NoId,
     offset |-> NoOffset, rect |-> NoRect]

Result(file, page, annotationId, offset, rect) ==
    [null |-> FALSE, file |-> file, page |-> page, annotationId |-> annotationId,
     offset |-> offset, rect |-> rect]

\* ---- the arguments
NoLink ==
    [kind |-> "none", embed |-> FALSE, path |-> "", hashed |-> FALSE,
     pairs |-> <<>>, alias |-> FALSE]

\* the wikilink '[[path#pairs]]', '![[...]]' if embed, '|A' before the closing
\* brackets if alias
Wikilink(embed, path, hashed, pairs, alias) ==
    [kind |-> "wikilink", embed |-> embed, path |-> path, hashed |-> hashed,
     pairs |-> pairs, alias |-> alias]

\* '[[Notes.pdf#page=5&offset=100,200,1.5]]'
ScenarioLink ==
    Wikilink(FALSE, "Notes.pdf", TRUE,
             << [key |-> "page", value |-> <<"5">>],
                [key |-> "offset", value |-> <<"100", "200", "1.5">>] >>, FALSE)

\* url of resolveWikilink: every subpath for the plain link to Notes.pdf,
\* shorter ones for embeds, aliases and the other paths
Wikilinks ==
    { Wikilink(FALSE, "Notes.pdf", TRUE, t, FALSE) : t \in Subpaths }
    \cup
    { Wikilink(e, "Notes.pdf", TRUE, t, a) :
          e \in BOOLEAN, a \in BOOLEAN,
          t \in UNION { SubpathsOfLen(n) : n \in 0..(MaxPairs - 2) } }
    \cup
    { Wikilink(e, p, TRUE, t, FALSE) :
          e \in BOOLEAN, p \in LinkPaths, t \in SubpathsOfLen(0) \cup SubpathsOfLen(1) }
    \cup
    { Wikilink(e, p, FALSE, <<>>, a) :
          e \in BOOLEAN, p \in LinkPaths, a \in BOOLEAN }
    \cup
    { ScenarioLink }

\* what pdfJsDestArrayToSubpath gives resolveInternalLink for its dest:
\* a subpath, or nothing (hashed FALSE)
InternalLinks ==
    { [kind |-> "internal", embed |-> FALSE, path |-> "", hashed |-> TRUE,
       pairs |-> t, alias |-> FALSE] : t \in Subpaths }
    \cup
    { [kind |-> "internal", embed |-> FALSE, path |-> "", hashed |-> FALSE,
       pairs |-> <<>>, alias |-> FALSE] }

\* ---- the link text
\* the pairs of a link text that ends in the alias segment: the segment is
\* the tail of the last component
Aliased(pairs) ==
    IF pairs = <<>> THEN pairs
    ELSE [pairs EXCEPT ![Len(pairs)].value =
              [@ EXCEPT ![Len(@)] = @ \o AliasText]]

\* url.slice(startSlice, -2) up to its first '#' or '|': a slice from 2
\* leaves the second character of '![[' in front of the path
PathText(l, start) ==
    IF l.embed /\ start = 2 THEN "[" \o l.path ELSE l.path

\* hashIndex = linktext.indexOf('#'); filePath and subpath are the two sides
\* of it when hashIndex > 0, else the whole link text and ''
SplitLinktext(l, start) ==
    LET hashIndexPositive == l.hashed /\ PathText(l, start) # "" IN
    [filePath |-> IF hashIndexPositive THEN PathText(l, start)
                  ELSE IF l.hashed THEN WholeLinktext
                  ELSE IF l.alias THEN PathText(l, start) \o AliasText
                  ELSE PathText(l, start),
     subpath |-> IF ~hashIndexPositive THEN <<>>
                 ELSE IF l.alias THEN Aliased(l.pairs) ELSE l.pairs]

\* isEmbed ? 3 : 2
startSlice(l) == IF l.embed THEN 3 ELSE 2

filePath(l) == SplitLinktext(l, startSlice(l)).filePath
subpath(l) == SplitLinktext(l, startSlice(l)).subpath

\* mutant: an unresolved file is not looked at
resolveWikilink_NoFileCheck(l, throws) ==
    IF throws THEN NullResult
    ELSE Result(getFirstLinkpathDest(filePath(l)),
                IF Match(subpath(l), "page") # 0
                THEN parseInt(subpath(l)[Match(subpath(l), "page")].value) ELSE 1,
                AnnotationIdOf(subpath(l)), OffsetOf(subpath(l)), RectOf(subpath(l)))

\* mutant: the zoom is taken for the top of the offset
resolveWikilink_ZoomAsTop(l, throws) ==
    LET file == getFirstLinkpathDest(filePath(l))
        pageMatch == Match(subpath(l), "page")
        m == Match(subpath(l), "offset")
        offset == OffsetOf(subpath(l)) IN
    IF throws \/ file = NoFile THEN NullResult
    ELSE Result(file,
                IF pageMatch # 0 THEN parseInt(subpath(l)[pageMatch].value) ELSE 1,
                AnnotationIdOf(subpath(l)),
                IF offset.defined
                THEN [offset EXCEPT !.top = OffsetPart(subpath(l)[m].value, 3)]
                ELSE offset,
                RectOf(subpath(l)))

\* resolveWikilink(url, sourceFile) (part_000 lines 644-718); `throws` is an
\* exception raised inside the try block
resolveWikilink(l, throws) ==
    LET file == getFirstLinkpathDest(filePath(l))
        pageMatch == Match(subpath(l), "page") IN
    IF throws THEN NullResult
    ELSE IF file = NoFile THEN NullResult
    ELSE Result(file,
                IF pageMatch # 0 THEN parseInt(subpath(l)[pageMatch].value) ELSE 1,
                AnnotationIdOf(subpath(l)), OffsetOf(subpath(l)), RectOf(subpath(l)))

\* mutant: the lib version takes page 0 when the subpath names no page
libResolveWikilink_DefaultPageZero(l, throws) ==
    LET split == SplitLinktext(l, 2)
        file == getFirstLinkpathDest(split.filePath)
        pageMatch == Match(split.subpath, "page") IN
    IF throws \/ file = NoFile THEN NullResult
    ELSE Result(file,
                IF pageMatch # 0 THEN parseInt(split.subpath[pageMatch].value) ELSE 0,
                AnnotationIdOf(split.subpath), NoOffset, NoRect)

\* resolveWikilink of lib/shift-hover-manager.ts (lines 125-165): the slice
\* always starts at 2, the result has no offset and no rect
libResolveWikilink(l, throws) ==
    LET split == SplitLinktext(l, 2)
        file == getFirstLinkpathDest(split.filePath)
        pageMatch == Match(split.subpath, "page") IN
    IF throws THEN NullResult
    ELSE IF file = NoFile THEN NullResult
    ELSE Result(file,
                IF pageMatch # 0 THEN parseInt(split.subpath[pageMatch].value) ELSE 1,
                AnnotationIdOf(split.subpath), NoOffset, NoRect)

\* mutant: the target file is looked up from the destination
resolveInternalLink_LookedUpFile(l, throws) ==
    IF throws \/ ~l.hashed \/ MatchHashPage(l.pairs) = 0 THEN NullResult
    ELSE Result(getFirstLinkpathDest(l.path),
                parseInt(l.pairs[MatchHashPage(l.pairs)].value),
                AnnotationIdOf(l.pairs), OffsetOf(l.pairs), RectOf(l.pairs))

\* resolveInternalLink(dest, doc, sourceFile) (part_000 lines 577-642)
resolveInternalLink(l, throws) ==
    LET pageMatch == MatchHashPage(l.pairs) IN
    IF throws THEN NullResult
    ELSE IF ~l.hashed THEN NullResult
    ELSE IF pageMatch = 0 THEN NullResult
    ELSE Result(SourceFile, parseInt(l.pairs[pageMatch].value),
                AnnotationIdOf(l.pairs), OffsetOf(l.pairs), RectOf(l.pairs))

\* via: "call" the function applied to the link, "hover" reached through the
\* post-processor, "unhandled" the post-processor left the annotation alone;
\* filePath and subpath are what the link text was split into
NotResolved ==
    [done |-> FALSE, threw |-> FALSE, value |-> NullResult, via |-> "none",
     filePath |-> "", subpath |-> <<>>]

Unasked == ~resolved.done /\ ~libResolved.done

\* resolveWikilink is called on a link
ResolveWikilink ==
    /\ link.kind = "wikilink"
    /\ Unasked
    /\ \E throws \in BOOLEAN :
          resolved' = [done |-> TRUE, threw |-> throws,
                       value |-> resolveWikilink(link, throws), via |-> "call",
                       filePath |-> filePath(link), subpath |-> subpath(link)]
    /\ UNCHANGED <<link, view, libResolved, pipelineVars, closestVars, coordVars, hoverVars>>

\* resolveWikilink of lib/shift-hover-manager.ts is called on a link
LibResolveWikilink ==
    /\ link.kind = "wikilink"
    /\ Unasked
    /\ \E throws \in BOOLEAN :
          libResolved' = [done |-> TRUE, threw |-> throws,
                          value |-> libResolveWikilink(link, throws), via |-> "call",
                          filePath |-> SplitLinktext(link, 2).filePath,
                          subpath |-> SplitLinktext(link, 2).subpath]
    /\ UNCHANGED <<link, view, resolved, pipelineVars, closestVars, coordVars, hoverVars>>

\* url.startsWith('[[') && url.endsWith(']]') (external-link.ts line 84)
IsWikilinkUrl(l) == ~l.embed

\* PDFExternalLinkPostProcessor.onload on a link annotation whose URI is the
\* link, then a mouseover in shift mode: handleShiftHoverForWikilink runs
\* only when onload took the URI for a wikilink
MouseoverLinkAnnotation ==
    /\ link.kind = "wikilink"
    /\ Unasked
    /\ \E throws \in BOOLEAN :
          resolved' =
              IF IsWikilinkUrl(link)
              THEN [done |-> TRUE, threw |-> throws,
                    value |-> resolveWikilink(link, throws), via |-> "hover",
                    filePath |-> filePath(link), subpath |-> subpath(link)]
              ELSE [NotResolved EXCEPT !.via = "unhandled"]
    /\ UNCHANGED <<link, view, libResolved, pipelineVars, closestVars, coordVars, hoverVars>>

\* resolveInternalLink is called on a same-document destination
ResolveInternalLink ==
    /\ link.kind = "internal"
    /\ Unasked
    /\ \E throws \in BOOLEAN :
          resolved' = [done |-> TRUE, threw |-> throws,
                       value |-> resolveInternalLink(link, throws), via |-> "call",
                       filePath |-> "", subpath |-> link.pairs]
    /\ UNCHANGED <<link, view, libResolved, pipelineVars, closestVars, coordVars, hoverVars>>

\* --------------------------------------------------- destination tokens
\* view.getState() of the viewer whose location a token is built from, or
\* the entries of a JSON destination array; by: the encoder that has run
NoView == [page |-> 0, left |-> Undef, top |-> Undef, zoom |-> Undef, by |-> "none"]

ViewStates ==
    [page : {1, 3}, left : {Undef, 0, 5}, top : {Undef, 6}, zoom : {Undef, 0, 1},
     by : {"none"}]

PagePair(n) == [key |-> "page", value |-> <<ToText(n)>>]

\* the subpath 'Use current view' builds for another PDF
\* (link-annotation-modal.ts lines 242-247)
UseCurrentViewSubpath(state) ==
    IF state.left # Undef /\ state.top # Undef
    THEN << PagePair(state.page),
            [key |-> "offset",
             value |-> << ToText(state.left), ToText(state.top),
                          ToText(IF state.zoom = Undef THEN 0 ELSE state.zoom) >>] >>
    ELSE << PagePair(state.page) >>

\* the subpath the click handler of a JSON destination builds
\* (external-link.ts lines 272-286)
JsonDestSubpath(pageNumber, left, top, zoom) ==
    IF left # Undef /\ top # Undef
    THEN IF zoom # Undef /\ zoom > 0
         THEN << PagePair(pageNumber + 1),
                 [key |-> "offset",
                  value |-> << ToText(left), ToText(top), ToText(zoom) >>] >>
         ELSE << PagePair(pageNumber + 1),
                 [key |-> "offset", value |-> << "", ToText(top), "" >>] >>
    ELSE << PagePair(pageNumber + 1) >>

\* 'Use current view' on a viewer showing Notes.pdf writes the wikilink
UseCurrentView ==
    /\ link = NoLink
    /\ view.by = "none"
    /\ view # NoView
    /\ view' = [view EXCEPT !.by = "UseCurrentView"]
    /\ link' = Wikilink(FALSE, fileToLinktext("Notes.pdf"), TRUE,
                        UseCurrentViewSubpath(view), FALSE)
    /\ UNCHANGED <<resolved, libResolved, pipelineVars, closestVars, coordVars, hoverVars>>

\* a click on a JSON destination of Notes.pdf builds the link text
\* file.path + subpath; the page reference is 0-based
ClickJsonDestination ==
    /\ link = NoLink
    /\ view.by = "none"
    /\ view # NoView
    /\ view' = [view EXCEPT !.by = "JsonDestination"]
    /\ link' = Wikilink(FALSE, "Notes.pdf", TRUE,
                        JsonDestSubpath(view.page - 1, view.left, view.top, view.zoom),
                        FALSE)
    /\ UNCHANGED <<resolved, libResolved, pipelineVars, closestVars, coordVars, hoverVars>>

\* ------------------------------------------------ coordinate conversions
\* a page frame: pageEl.getBoundingClientRect() origin, the computed border
\* and padding widths of the page element, and the viewport of the page view
OriginLefts == {0, 10}
OriginTops == {0, 20}
BorderWidths == {0, 2}
PaddingWidths == {0, 4}
\* viewports: scale, and whether the y axis is turned over at `height`
Viewports ==
    { [scale |-> 1, flipped |-> FALSE, height |-> 0],
      [scale |-> 2, flipped |-> FALSE, height |-> 0],
      [scale |-> 1, flipped |-> TRUE, height |-> 300] }

PageFrames ==
    [left : OriginLefts, top : OriginTops,
     borderLeft : BorderWidths, borderTop : BorderWidths,
     paddingLeft : PaddingWidths, paddingTop : PaddingWidths,
     viewport : Viewports]

\* document points; Undef is an offset component that is not given
PointLefts == {Undef, 4, 100}
PointTops == {Undef, 6, 200}

NoPoint == [x |-> Undef, y |-> Undef]

\* viewport.convertToViewportPoint(x, y) of the renderer
convertToViewportPoint(viewport, x, y) ==
    [x |-> viewport.scale * x,
     y |-> IF viewport.flipped THEN viewport.scale * (viewport.height - y)
           ELSE viewport.scale * y]

\* pageView.getPagePoint(x, y) of the renderer, the inverse mapping
getPagePoint(viewport, x, y) ==
    [x |-> x \div viewport.scale,
     y |-> IF viewport.flipped THEN viewport.height - (y \div viewport.scale)
           ELSE y \div viewport.scale]

\* mutant: the insets are left out
LocationPoint_NoInsets(frame, offset) ==
    IF offset.left # Undef /\ offset.top # Undef
    THEN convertToViewportPoint(frame.viewport, offset.left, offset.top)
    ELSE NoPoint

\* highlightLocation without a rect: where the indicator of an offset is put
\* (style.left, style.top); a top alone gives a line from left 0
LocationPoint(frame, offset) ==
    IF offset.left # Undef /\ offset.top # Undef
    THEN LET viewportPoint ==
                 convertToViewportPoint(frame.viewport, offset.left, offset.top) IN
         [x |-> viewportPoint.x + frame.borderLeft + frame.paddingLeft,
          y |-> viewportPoint.y + frame.borderTop + frame.paddingTop]
    ELSE IF offset.top # Undef
    THEN LET viewportPoint == convertToViewportPoint(frame.viewport, 0, offset.top) IN
         [x |-> 0, y |-> viewportPoint.y + frame.borderTop + frame.paddingTop]
    ELSE NoPoint

\* addStickyNoteAtPosition: the document point of screen coordinates
StickyNotePoint(frame, screenX, screenY) ==
    LET relativeX == screenX - (frame.left + frame.borderLeft + frame.paddingLeft)
        relativeY == screenY - (frame.top + frame.borderTop + frame.paddingTop) IN
    getPagePoint(frame.viewport, relativeX, relativeY)

NoConversion ==
    [stage |-> "none",
     frame |-> [left |-> 0, top |-> 0, borderLeft |-> 0, borderTop |-> 0,
                paddingLeft |-> 0, paddingTop |-> 0,
                viewport |-> [scale |-> 1, flipped |-> FALSE, height |-> 0]],
     offset |-> [left |-> Undef, top |-> Undef], shown |-> NoPoint,
     handed |-> "none", pdf |-> NoPoint]

\* highlightLocation(child, page, offset) puts its indicator
HighlightLocation ==
    /\ conv.stage = "given"
    /\ conv' = [conv EXCEPT !.stage = "shown",
                            !.shown = LocationPoint(conv.frame, conv.offset)]
    /\ UNCHANGED <<pipelineVars, closestVars, decodeVars, hoverVars>>

\* the screenX, screenY a caller hands over for the indicator: its style
\* position as it is, or that position seen from the bounding-box origin
\* of the page element
ScreenPoint(frame, shown, handed) ==
    IF handed = "style" THEN shown
    ELSE [x |-> frame.left + shown.x, y |-> frame.top + shown.y]

\* addStickyNoteAtPosition is handed the position of the indicator
StickyNoteAtIndicator ==
    /\ conv.stage = "shown"
    /\ conv.shown # NoPoint
    /\ \E handed \in {"style", "screen"} :
          conv' = [conv EXCEPT
                      !.stage = "placed",
                      !.handed = handed,
                      !.pdf = StickyNotePoint(
                                  conv.frame,
                                  ScreenPoint(conv.frame, conv.shown, handed).x,
                                  ScreenPoint(conv.frame, conv.shown, handed).y)]
    /\ UNCHANGED <<pipelineVars, closestVars, decodeVars, hoverVars>>

\* ------------------------------------------------------- ShiftHoverManager
\* most times the post-processor's onload runs on one annotation element
MaxRegistrations == 2

\* the two versions of the class: src/unnamed/part_000 and
\* src/src/lib/shift-hover-manager.ts
Versions == {"part_000", "lib"}

\* the elements PDF.js put into the annotation layers of the open pages,
\* one per data-annotation-id
LayerFiles == {"A.pdf", "Notes.pdf"}
LayerPages == {1, 3}
LayerIds == {"12R", "7R"}
AnnotationElements == [file : LayerFiles, page : LayerPages, id : LayerIds]

\* the div of class 'shift-hover-location-highlight' created in a page div
OverlayId == "overlay"
Overlay(child, page) == [file |-> child, page |-> page, id |-> OverlayId]

\* this.currentHighlight = null
NoHighlight == [file |-> NoFile, page |-> 0, id |-> NoId]

\* currentHighlight (its element), the elements in the annotation layers,
\* the elements of class 'shift-hover-target-highlight', and the overlays in
\* the page divs
NoHighlights ==
    [ currentHighlight |-> NoHighlight,
      annotationLayer  |-> AnnotationElements,
      highlighted      |-> {},
      overlays         |-> {} ]

\* clearHighlight() of part_000 (lines 568-575): removeClass, then
\* element.remove() takes the element out of its parent
clearHighlight(h) ==
    IF h.currentHighlight # NoHighlight
    THEN [ currentHighlight |-> NoHighlight,
           annotationLayer  |-> h.annotationLayer \ {h.currentHighlight},
           highlighted      |-> h.highlighted \ {h.currentHighlight},
           overlays         |-> h.overlays \ {h.currentHighlight} ]
    ELSE h

\* clearHighlight() of lib/shift-hover-manager.ts (lines 83-89): removeClass only
libClearHighlight(h) ==
    IF h.currentHighlight # NoHighlight
    THEN [h EXCEPT !.currentHighlight = NoHighlight,
                   !.highlighted = @ \ {h.currentHighlight}]
    ELSE h

\* this.clearHighlight() in the version at hand
ClearHighlightOf(v, h) ==
    IF v = "lib" THEN libClearHighlight(h) ELSE clearHighlight(h)

\* mutant: the previous highlight is not cleared first
highlightAnnotation_NoClear(v, h, child, page, annotationId, hasLayer) ==
    LET element == [file |-> child, page |-> page, id |-> annotationId] IN
    IF hasLayer /\ element \in h.annotationLayer
    THEN [h EXCEPT !.highlighted = @ \cup {element},
                   !.currentHighlight = element]
    ELSE h

\* highlightAnnotation(child, page, annotationId) (part_000 lines 410-443,
\* lib lines 48-81); hasLayer: pageView?.annotationLayer?.div is there
highlightAnnotation(v, h, child, page, annotationId, hasLayer) ==
    LET cleared == ClearHighlightOf(v, h)
        element == [file |-> child, page |-> page, id |-> annotationId] IN
    IF ~hasLayer THEN cleared
    ELSE IF element \in cleared.annotationLayer
    THEN [cleared EXCEPT !.highlighted = @ \cup {element},
                         !.currentHighlight = element]
    ELSE cleared

\* highlightLocation(child, page, offset, rect) (part_000 lines 445-566) as
\* far as the elements go; hasPage: pageView and pageView.div are there
highlightLocation(h, child, page, hasPage) ==
    LET cleared == clearHighlight(h) IN
    IF ~hasPage THEN cleared
    ELSE [cleared EXCEPT !.overlays = @ \cup {Overlay(child, page)},
                         !.currentHighlight = Overlay(child, page)]

\* findViewerForFile(targetFile) (part_000 lines 851-868): whether a viewer
\* showing the file is open
findViewerForFile(openViewers, targetFile) == targetFile \in openViewers

\* resolveWikilink in the version at hand
ResolveWikilinkOf(v, l, throws) ==
    IF v = "lib" THEN libResolveWikilink(l, throws) ELSE resolveWikilink(l, throws)

\* evt.key of the key events
HoverKeys == {"Shift", "a"}

\* the keydown listener (part_000 lines 390-395, lib lines 28-33)
keydown(key, pressed) ==
    IF key = "Shift" /\ ~pressed THEN TRUE ELSE pressed

\* mutant: the keyup listener leaves the highlight
keyup_HighlightKept(v, key, s) ==
    IF key = "Shift" THEN [s EXCEPT !.isShiftPressed = FALSE] ELSE s

\* the keyup listener (part_000 lines 397-403, lib lines 35-41) on the flag
\* and the highlight
keyup(v, key, s) ==
    IF key = "Shift"
    THEN [isShiftPressed |-> FALSE, highlight |-> ClearHighlightOf(v, s.highlight)]
    ELSE s

\* the resolution a mouseover listener is waiting for
NoPending == [waiting |-> FALSE, value |-> NullResult]

\* mutant: the file of the source viewer is not looked at
awaitResolveWikilink_NoFileCheck(hasFile, value) ==
    [waiting |-> TRUE, value |-> value]

\* handleShiftHoverForWikilink(url) up to its await (external-link.ts lines
\* 329-337): `value` is what resolveWikilink will give
awaitResolveWikilink(hasFile, value) ==
    IF ~hasFile THEN NoPending ELSE [waiting |-> TRUE, value |-> value]

\* handleShiftHoverForWikilink(url) after its await (lines 337-351)
handleShiftHoverForWikilink(v, h, value, openViewers, hasLayer) ==
    IF value.null \/ value.annotationId = NoId THEN h
    ELSE IF ~findViewerForFile(openViewers, value.file) THEN h
    ELSE highlightAnnotation(v, h, value.file, value.page, value.annotationId,
                             hasLayer)

\* mutant: the click handler does not stop the other listeners of the element
clickHandler_NoStop(calls) == [calls |-> calls + 1, stopped |-> FALSE]

\* clickHandler (external-link.ts lines 124-173): stopImmediatePropagation
\* and one openLinkText call
clickHandler(calls) == [calls |-> calls + 1, stopped |-> TRUE]

\* the click listeners in the order the event reaches them: those of the
\* container (capture), then those of the anchor when it is the target
ClickListeners(n, clicked) ==
    [i \in 1..n |-> "container"] \o
    (IF clicked = "anchor" THEN [i \in 1..n |-> "anchor"] ELSE <<>>)

\* the number of openLinkText calls a click event makes: a listener of the
\* container calls clickHandler only if the container is the target (line 184)
RECURSIVE DispatchClick(_, _, _)
DispatchClick(listeners, clicked, calls) ==
    IF listeners = <<>> THEN calls
    ELSE LET ran == IF Head(listeners) = "anchor" \/ clicked = "container"
                    THEN clickHandler(calls)
                    ELSE [calls |-> calls, stopped |-> FALSE] IN
         IF ran.stopped THEN ran.calls
         ELSE DispatchClick(Tail(listeners), clicked, ran.calls)

\* the link text clickHandler passes to openLinkText: url.slice(2, -2) up to
\* its first '|' (lines 152-157)
ClickLinktext(l) == [l EXCEPT !.alias = FALSE]

NotOpened ==
    [calls |-> 0, clicked |-> "none", listeners |-> 0, linktext |-> NoLink]

\* the URLs of the link annotation the post-processor is loaded on
HoverLinks ==
    { Wikilink(FALSE, "Notes.pdf", TRUE,
               << [key |-> "page", value |-> <<"3">>],
                  [key |-> "annotation", value |-> <<"12R">>] >>, a) :
          a \in BOOLEAN }
    \cup
    { Wikilink(FALSE, "Notes.pdf", TRUE,
               << [key |-> "annotation", value |-> <<"12R">>],
                  [key |-> "page", value |-> <<"3">>] >>, TRUE),
      Wikilink(FALSE, "Notes.pdf", TRUE,
               << [key |-> "page", value |-> <<"3">>] >>, FALSE),
      Wikilink(FALSE, "Gone.pdf", TRUE,
               << [key |-> "annotation", value |-> <<"12R">>] >>, FALSE),
      Wikilink(FALSE, "A.pdf", TRUE,
               << [key |-> "annotation", value |-> <<"7R">>] >>, FALSE),
      Wikilink(FALSE, "Notes.pdf", FALSE, <<>>, TRUE) }

\* no listener is running and none is waiting: the next event is dispatched
\* only after the microtasks of the previous one have run
EventLoopIdle == toRun = 0 /\ ~pending.waiting

\* a keydown event reaches the document
Keydown ==
    /\ EventLoopIdle
    /\ focused
    /\ \E key \in HoverKeys :
          /\ isShiftPressed' = keydown(key, isShiftPressed)
          /\ shiftHistory' = IF key = "Shift" THEN "down" ELSE shiftHistory
    /\ lastEvent' = "keydown"
    /\ UNCHANGED <<version, highlight, focused, workspace, regs, toRun, pending,
                   opened, pipelineVars, closestVars, decodeVars, coordVars>>

\* a keyup event reaches the document
Keyup ==
    /\ EventLoopIdle
    /\ focused
    /\ \E key \in HoverKeys :
          LET after == keyup(version, key,
                             [isShiftPressed |-> isShiftPressed,
                              highlight |-> highlight]) IN
          /\ isShiftPressed' = after.isShiftPressed
          /\ highlight' = after.highlight
          /\ shiftHistory' = IF key = "Shift" THEN "up" ELSE shiftHistory
    /\ lastEvent' = "keyup"
    /\ UNCHANGED <<version, focused, workspace, regs, toRun, pending, opened,
                   pipelineVars, closestVars, decodeVars, coordVars>>

\* the window loses the focus: onload registers no listener for it (part_000
\* lines 387-408, lib lines 25-42), and key events no longer arrive
Blur ==
    /\ EventLoopIdle
    /\ focused
    /\ focused' = FALSE
    /\ shiftHistory' = "blurred"
    /\ lastEvent' = "blur"
    /\ UNCHANGED <<version, isShiftPressed, highlight, workspace, regs, toRun,
                   pending, opened, pipelineVars, closestVars, decodeVars,
                   coordVars>>

\* the window gets the focus back
Focus ==
    /\ EventLoopIdle
    /\ ~focused
    /\ focused' = TRUE
    /\ lastEvent' = "focus"
    /\ UNCHANGED <<version, isShiftPressed, highlight, shiftHistory, workspace,
                   regs, toRun, pending, opened, pipelineVars, closestVars,
                   decodeVars, coordVars>>

\* registerEvents creates a post-processor for the annotation and its onload
\* registers the listeners (external-link.ts lines 84-223, 354-402)
RegisterEvents ==
    /\ EventLoopIdle
    /\ IsWikilinkUrl(link)
    /\ regs < MaxRegistrations
    /\ regs' = regs + 1
    /\ UNCHANGED <<version, isShiftPressed, highlight, focused, shiftHistory,
                   workspace, toRun, pending, lastEvent, opened, pipelineVars,
                   closestVars, decodeVars, coordVars>>

\* a mouseover event reaches the container: every registered listener is to run
Mouseover ==
    /\ EventLoopIdle
    /\ regs > 0
    /\ toRun' = regs
    /\ lastEvent' = "mouseover"
    /\ UNCHANGED <<version, isShiftPressed, highlight, focused, shiftHistory,
                   workspace, regs, pending, opened, pipelineVars, closestVars,
                   decodeVars, coordVars>>

\* one mouseover listener runs up to its await (lines 213-217, 329-337)
MouseoverListener ==
    /\ toRun > 0
    /\ ~pending.waiting
    /\ toRun' = toRun - 1
    /\ \E throws \in BOOLEAN :
          pending' =
              IF isShiftPressed
              THEN awaitResolveWikilink(workspace.childFile,
                       ResolveWikilinkOf(version, link, throws))
              ELSE NoPending
    /\ UNCHANGED <<version, isShiftPressed, highlight, focused, shiftHistory,
                   workspace, regs, lastEvent, opened, pipelineVars, closestVars,
                   decodeVars, coordVars>>

\* the listener goes on after its await (lines 337-351)
HoverContinues ==
    /\ pending.waiting
    /\ \E hasLayer \in BOOLEAN :
          highlight' = handleShiftHoverForWikilink(
                           version, highlight, pending.value,
                           workspace.openViewers, hasLayer)
    /\ pending' = NoPending
    /\ UNCHANGED <<version, isShiftPressed, focused, shiftHistory, workspace,
                   regs, toRun, lastEvent, opened, pipelineVars, closestVars,
                   decodeVars, coordVars>>

\* a mouseleave event reaches the container (lines 219-223)
Mouseleave ==
    /\ EventLoopIdle
    /\ regs > 0
    /\ highlight' = IF isShiftPressed THEN ClearHighlightOf(version, highlight)
                    ELSE highlight
    /\ lastEvent' = "mouseleave"
    /\ UNCHANGED <<version, isShiftPressed, focused, shiftHistory, workspace,
                   regs, toRun, pending, opened, pipelineVars, closestVars,
                   decodeVars, coordVars>>

\* a click event on the anchor or on the container itself (lines 124-188)
Click ==
    /\ EventLoopIdle
    /\ regs > 0
    /\ \E clicked \in {"anchor", "container"} :
          opened' = [calls |-> DispatchClick(ClickListeners(regs, clicked),
                                             clicked, 0),
                     clicked |-> clicked,
                     listeners |-> Len(ClickListeners(regs, clicked)),
                     linktext |-> ClickLinktext(link)]
    /\ lastEvent' = "click"
    /\ UNCHANGED <<version, isShiftPressed, highlight, focused, shiftHistory,
                   workspace, regs, toRun, pending, pipelineVars, closestVars,
                   decodeVars, coordVars>>

\* ---- the highlight functions called one after the other
\* ids a caller may ask for: those of the layers and one that no layer has
AskedIds == LayerIds \cup {"9R"}

HighlightAnnotationCall ==
    /\ \E child \in LayerFiles, page \in LayerPages, annotationId \in AskedIds,
          hasLayer \in BOOLEAN :
          highlight' = highlightAnnotation(version, highlight, child, page,
                                           annotationId, hasLayer)
    /\ lastEvent' = "highlightAnnotation"
    /\ UNCHANGED <<version, isShiftPressed, focused, shiftHistory, workspace,
                   regs, toRun, pending, opened, pipelineVars, closestVars,
                   decodeVars, coordVars>>

HighlightLocationCall ==
    /\ version = "part_000"
    /\ \E child \in LayerFiles, page \in LayerPages, hasPage \in BOOLEAN :
          highlight' = highlightLocation(highlight, child, page, hasPage)
    /\ lastEvent' = "highlightLocation"
    /\ UNCHANGED <<version, isShiftPressed, focused, shiftHistory, workspace,
                   regs, toRun, pending, opened, pipelineVars, closestVars,
                   decodeVars, coordVars>>

ClearHighlightCall ==
    /\ highlight' = ClearHighlightOf(version, highlight)
    /\ lastEvent' = "clearHighlight"
    /\ UNCHANGED <<version, isShiftPressed, focused, shiftHistory, workspace,
                   regs, toRun, pending, opened, pipelineVars, closestVars,
                   decodeVars, coordVars>>

\* ---------------------------------------------------------- specifications
PipelineIdle ==
    /\ cur = IdleCall
    /\ el = NoElement
    /\ windowSelection = NoSelection
    /\ modal = NoModal
    /\ captured = NoRange

ClosestIdle ==
    /\ annots = <<>>
    /\ target = [left |-> Undef, top |-> Undef]
    /\ closest = NotAsked

DecodeIdle ==
    /\ link = NoLink
    /\ resolved = NotResolved
    /\ view = NoView
    /\ libResolved = NotResolved

CoordsIdle == conv = NoConversion

HoverIdle ==
    /\ version = "part_000"
    /\ isShiftPressed = FALSE
    /\ highlight = NoHighlights
    /\ focused = TRUE
    /\ shiftHistory = "never"
    /\ workspace = [childFile |-> FALSE, openViewers |-> {}]
    /\ regs = 0
    /\ toRun = 0
    /\ pending = NoPending
    /\ lastEvent = "none"
    /\ opened = NotOpened

\* the creation pipeline and the two registration paths
Init == PipelineIdle /\ ClosestIdle /\ DecodeIdle /\ CoordsIdle /\ HoverIdle

Next ==
    \/ AddTextMarkupAnnotationToSelection
    \/ AddLinkAnnotationToSelection
    \/ AddLinkAnnotationToTextRange
    \/ AddLinkAnnotation
    \/ AddStickyNoteAtPosition
    \/ AnnotationContentsOp
    \/ IoResolve
    \/ IoReject
    \/ ResumeTextRange
    \/ ResumeOuter
    \/ ResumeAddLinkAnnotation
    \/ ResumeStickyNote
    \/ ResumeAnnotationContentsOp
    \/ LayerRender
    \/ AnnotationLayerRendered
    \/ SelectionChange
    \/ CallReturns

Spec == Init /\ [][Next]_vars

\* the link-annotation modal driving the creation pipeline
NextModal ==
    \/ ModalOpen
    \/ ModalSetDestType
    \/ ModalSetTargetPage
    \/ ModalSetExternalUrl
    \/ ModalSubmit
    \/ ModalCancel
    \/ SelectionChange
    \/ IoResolve
    \/ IoReject
    \/ ResumeTextRange
    \/ ResumeOuter
    \/ CallReturns

SpecModal == Init /\ [][NextModal]_vars

\* findClosestAnnotationToOffset over every annotation list and offset
InitClosest ==
    /\ PipelineIdle
    /\ HoverIdle
    /\ DecodeIdle
    /\ CoordsIdle
    /\ annots \in AnnotationLists
    /\ target \in [left : TargetLefts, top : TargetTops]
    /\ closest = NotAsked

NextClosest == FindClosestAnnotationToOffset

SpecClosest == InitClosest /\ [][NextClosest]_vars

\* resolveWikilink and resolveInternalLink over every link of the bounds, and
\* over the links the two token writers build from every viewer state
InitDecode ==
    /\ PipelineIdle
    /\ HoverIdle
    /\ ClosestIdle
    /\ CoordsIdle
    /\ resolved = NotResolved
    /\ libResolved = NotResolved
    /\ \/ link \in Wikilinks \cup InternalLinks /\ view = NoView
       \/ link = NoLink /\ view \in ViewStates

NextDecode ==
    \/ ResolveWikilink
    \/ LibResolveWikilink
    \/ MouseoverLinkAnnotation
    \/ ResolveInternalLink
    \/ UseCurrentView
    \/ ClickJsonDestination

SpecDecode == InitDecode /\ [][NextDecode]_vars

\* the two coordinate conversions over every page frame and offset
InitCoords ==
    /\ PipelineIdle
    /\ HoverIdle
    /\ ClosestIdle
    /\ DecodeIdle
    /\ conv \in [stage : {"given"}, frame : PageFrames,
                 offset : [left : PointLefts, top : PointTops],
                 shown : {NoPoint}, handed : {"none"}, pdf : {NoPoint}]

NextCoords ==
    \/ HighlightLocation
    \/ StickyNoteAtIndicator

SpecCoords == InitCoords /\ [][NextCoords]_vars

\* the shift-hover manager and one wikilink annotation with its listeners
InitHover ==
    /\ PipelineIdle
    /\ ClosestIdle
    /\ CoordsIdle
    /\ resolved = NotResolved
    /\ libResolved = NotResolved
    /\ view = NoView
    /\ link \in HoverLinks
    /\ version \in Versions
    /\ isShiftPressed = FALSE
    /\ highlight = NoHighlights
    /\ focused = TRUE
    /\ shiftHistory = "never"
    /\ workspace \in [childFile : BOOLEAN,
                      openViewers : {{}, {"Notes.pdf"}, LayerFiles}]
    /\ regs = 0
    /\ toRun = 0
    /\ pending = NoPending
    /\ lastEvent = "none"
    /\ opened = NotOpened

NextHover ==
    \/ Keydown
    \/ Keyup
    \/ Blur
    \/ Focus
    \/ RegisterEvents
    \/ Mouseover
    \/ MouseoverListener
    \/ HoverContinues
    \/ Mouseleave
    \/ Click

SpecHover == InitHover /\ [][NextHover]_vars

\* highlightAnnotation, highlightLocation and clearHighlight in any order
InitHighlight ==
    /\ PipelineIdle
    /\ ClosestIdle
    /\ DecodeIdle
    /\ CoordsIdle
    /\ version \in Versions
    /\ isShiftPressed = FALSE
    /\ highlight = NoHighlights
    /\ focused = TRUE
    /\ shiftHistory = "never"
    /\ workspace = [childFile |-> FALSE, openViewers |-> {}]
    /\ regs = 0
    /\ toRun = 0
    /\ pending = NoPending
    /\ lastEvent = "none"
    /\ opened = NotOpened

NextHighlight ==
    \/ HighlightAnnotationCall
    \/ HighlightLocationCall
    \/ ClearHighlightCall

SpecHighlight == InitHighlight /\ [][NextHighlight]_vars

\* ------------------------------------------------------------------ claims
StepSet(c) == { c.steps[i] : i \in 1..Len(c.steps) }

\* s comes before t wherever both occur in the steps of c
Before(c, s, t) ==
    \A i, j \in 1..Len(c.steps) :
        (c.steps[i] = s /\ c.steps[j] = t) => i < j

Count(c, s) == Cardinality({ i \in 1..Len(c.steps) : c.steps[i] = s })

\* C1: once the immediate attempt and the deferred handler have both dealt
\* with the element of a new annotation, the registration has been performed
\* on it exactly once
C1_RegisteredExactlyOnce ==
    (el.immediate /\ el.deferred) => el.regs = 1

\* C2: when addAnnotationToTextRange cannot compute rectangles (no file, page
\* outside [1, pagesCount], no loaded text layer, no text-layer info) the
\* annotator is never invoked and the call carries no annotation id
C2_NoRectsNoPersistence ==
    ( /\ cur.op \in TextRangeOps
      /\ \/ ~cur.hasFile
         \/ cur.page < 1
         \/ cur.page > PagesCount
         \/ cur.pageState # "ready" )
    => /\ cur.io = "none"
       /\ "persist" \notin StepSet(cur)
       /\ cur.annotationID = NoId
       /\ cur.resultId = NoId
       /\ el = NoElement

C2_Witness ==
    /\ cur.op = "linkRange"
    /\ cur.pc = "done"
    /\ cur.hasFile
    /\ cur.page = PagesCount + 1
    /\ cur.pageState = "ready"
    /\ cur.result = "undefined"

\* C3: the creation operation of the mutation interface is only ever invoked
\* with a non-empty rectangle set
C3_PersistOnlyWithRects ==
    (cur.op \in TextRangeOps \cup {"linkDirect"} /\ cur.io # "none")
    => Len(cur.rects) > 0

\* C4: when the creation call of a link operation fails, no registration
\* step is taken (no lookup, no registerEvents) and the result has no id
C4_FailedPersistNoRegistration ==
    (cur.op \in {"linkSel", "linkRange", "linkDirect"} /\ cur.io = "err")
    => /\ "lookup" \notin StepSet(cur)
       /\ "register" \notin StepSet(cur)
       /\ el.regs = 0
       /\ cur.annotationID = NoId
       /\ cur.resultId = NoId

C4_Witness ==
    /\ cur.op = "linkRange"
    /\ cur.destString = "wikilink"
    /\ cur.io = "err"
    /\ cur.pc = "done"
    /\ cur.result = "record"

\* C5 as claimed: every failure of a mutation-interface operation reaches the
\* caller of the core operation as that same error
C5_EveryFailureReachesCaller ==
    (cur.pc = "done" /\ cur.io = "err")
    => (cur.result = "threw" /\ cur.thrown = cur.ioErr)

\* C5 as amended: a failure of deleteAnnotation, getAnnotationContents,
\* setAnnotationContents or addLinkAnnotation reaches the caller as that same
\* error; a failure inside addAnnotationToTextRange or addStickyNoteAtPosition
\* is caught there, a Notice is shown, and the call returns without an id
C5_FailureThrownOrNoticed ==
    (cur.pc = "done" /\ cur.io = "err")
    => IF cur.op \in PlainOps \cup {"linkDirect"}
       THEN cur.result = "threw" /\ cur.thrown = cur.ioErr /\ cur.notices = 0
       ELSE /\ cur.result \in {"record", "undefined"}
            /\ cur.thrown = NoErr
            /\ cur.resultId = NoId
            /\ cur.notices = 1

C5_Witness ==
    /\ cur.op = "setContents"
    /\ cur.pc = "done"
    /\ cur.io = "err"
    /\ cur.thrown = "ELOCKED"

C7_RegistrationOnlyForWikilinkWithId ==
    ("lookup" \in StepSet(cur) \/ "register" \in StepSet(cur) \/ el.immediate)
    => /\ cur.annotationID # NoId
       /\ cur.destString = "wikilink"
       /\ cur.dest \in {"wikilink", "pathSubpath"}

C7_Witness ==
    /\ cur.pc = "done"
    /\ cur.op = "linkSel"
    /\ cur.dest = "url"
    /\ cur.annotationID # NoId
    /\ el.present
    /\ ~el.marked
    /\ "lookup" \notin StepSet(cur)

\* C8: within one creation call the steps occur in the order selection,
\* rectangles, persistence invoked, persistence returned, registration,
\* return; the creation operation is invoked at most once
C8_StepOrder ==
    /\ Count(cur, "persist") <= 1
    /\ cur.op \in TextRangeOps
          => /\ Before(cur, "selection", "rects")
             /\ Before(cur, "rects", "persist")
             /\ "persist" \in StepSet(cur)
                   => ("rects" \in StepSet(cur) /\ "selection" \in StepSet(cur))
             /\ cur.io # "none" => cur.rectArgs = cur.range
    /\ Before(cur, "persist", "persisted")
    /\ Before(cur, "persist", "notice")
    /\ \A s \in {"lookup", "register"} :
          s \in StepSet(cur)
             => ("persisted" \in StepSet(cur) /\ Before(cur, "persisted", s))
    /\ \A s \in StepSet(cur) \ {"return"} : Before(cur, s, "return")
    /\ "persisted" \in StepSet(cur) => "persist" \in StepSet(cur)

C8_Witness ==
    /\ cur.op = "linkRange"
    /\ cur.steps = <<"selection", "rects", "persist", "persisted",
                     "lookup", "register", "return">>

\* C9: a range kept by the modal reaches the rectangle computation unchanged,
\* without the live selection being read, and the modal keeps the range it
\* was constructed with
C9_KeptRangeReachesRects ==
    /\ modal.open => modal.selectionInfo = captured
    /\ (cur.fromModal /\ captured # NoRange)
          => /\ cur.op = "linkRange"
             /\ ~cur.usedLive
             /\ cur.rectArgs \in {NoRange, captured}
             /\ cur.io # "none" => cur.rectArgs = captured

C9_Witness ==
    /\ cur.fromModal
    /\ cur.op = "linkRange"
    /\ cur.io = "ok"
    /\ cur.rectArgs = captured
    /\ windowSelection.kind = "text"
    /\ windowSelection.range # captured

\* indices of the annotations the loop keeps, by partition
MarkupLike == { i \in 1..Len(annots) :
                  Len(annots[i].rect) >= 4 /\ annots[i].subtype # "Text" }
NoteLike == { i \in 1..Len(annots) :
                  Len(annots[i].rect) >= 4 /\ annots[i].subtype = "Text" }

\* C10: the result is taken from the markup-like partition whenever it is
\* non-empty, and from the note-like partition only otherwise
C10_NotesOnlyAsFallback ==
    (closest.done /\ closest.pageView)
    => /\ MarkupLike # {} => closest.id \in MarkupLike
       /\ (closest.id # NullId /\ annots[closest.id].subtype = "Text")
             => \A i \in 1..Len(annots) :
                   annots[i].subtype = "Text" \/ Len(annots[i].rect) < 4
       /\ (MarkupLike = {} /\ NoteLike # {}) => closest.id \in NoteLike

C10_Witness ==
    /\ closest.done
    /\ Len(annots) = 2
    /\ closest.id = 2
    /\ annots[2].subtype = "Text"
    /\ annots[1].subtype = "Highlight"

\* ---- the resolver's rule, stated over the annotations and the target
\* the target point lies within the rect of annotation i, edges included
TargetWithin(i) ==
    /\ target.left # Undef
    /\ target.top # Undef
    /\ annots[i].rect[1] <= target.left /\ target.left <= annots[i].rect[3]
    /\ annots[i].rect[2] <= target.top /\ target.top <= annots[i].rect[4]

\* twice the difference between the target and the center of annotation i
CenterDx2(i) == 2 * target.left - (annots[i].rect[1] + annots[i].rect[3])
CenterDy2(i) == 2 * target.top - (annots[i].rect[2] + annots[i].rect[4])

\* distance of annotation i on the scale of Distance: (2d)^2 for the
\* Euclidean distance d, 2d for a single-axis distance d
TargetDistance(i) ==
    IF TargetWithin(i) THEN 0
    ELSE IF target.left # Undef /\ target.top # Undef
         THEN CenterDx2(i) * CenterDx2(i) + CenterDy2(i) * CenterDy2(i)
    ELSE IF target.top # Undef
         THEN (IF CenterDy2(i) < 0 THEN -CenterDy2(i) ELSE CenterDy2(i))
    ELSE (IF CenterDx2(i) < 0 THEN -CenterDx2(i) ELSE CenterDx2(i))

TargetGiven == target.left # Undef \/ target.top # Undef

IsMarkup(i) == annots[i].subtype \in {"Highlight", "Underline", "Squiggly", "StrikeOut"}

\* annotation i comes strictly before annotation j under the key
\* (containsPoint descending, isTextMarkup descending, distance ascending)
KeyBefore(i, j) ==
    \/ TargetWithin(i) /\ ~TargetWithin(j)
    \/ /\ TargetWithin(i) = TargetWithin(j)
       /\ IsMarkup(i) /\ ~IsMarkup(j)
    \/ /\ TargetWithin(i) = TargetWithin(j)
       /\ IsMarkup(i) = IsMarkup(j)
       /\ TargetGiven
       /\ TargetDistance(i) < TargetDistance(j)

ChosenPartition == IF MarkupLike # {} THEN MarkupLike ELSE NoteLike

Answered == closest.done /\ closest.pageView

\* C11: the returned id is that of a candidate of the chosen partition that
\* no other candidate of the partition precedes under the key (containsPoint
\* descending, isTextMarkup descending, distance ascending); of a text
\* markup, a link and a sticky note with the same rect, the text markup wins
C11_MinimalUnderKey ==
    Answered =>
       /\ closest.id # NullId =>
             /\ closest.id \in ChosenPartition
             /\ \A j \in ChosenPartition : ~KeyBefore(j, closest.id)
       /\ ( /\ Len(annots) = 3
            /\ \A i \in 1..3 : Len(annots[i].rect) = 4 /\ annots[i].rect = annots[1].rect
            /\ { annots[i].subtype : i \in 1..3 } = {"Highlight", "Link", "Text"} )
          => annots[closest.id].subtype = "Highlight"

C11_Witness ==
    /\ Answered
    /\ Len(annots) = 3
    /\ annots[1].subtype = "Link"
    /\ annots[2].subtype = "Text"
    /\ annots[3].subtype = "Highlight"
    /\ \A i \in 1..3 : annots[i].rect = <<2, 0, 4, 2>>
    /\ target = [left |-> 1, top |-> 1]
    /\ closest.id = 3

\* a sticky note contains the target, no markup-like candidate does, and a
\* text markup candidate has its center closer to the target than the note
NoteContainsMarkupCloser ==
    \E n \in NoteLike : \E m \in MarkupLike :
        /\ TargetWithin(n)
        /\ \A k \in MarkupLike : ~TargetWithin(k)
        /\ IsMarkup(m)
        /\ CenterDx2(m) * CenterDx2(m) + CenterDy2(m) * CenterDy2(m)
              < CenterDx2(n) * CenterDx2(n) + CenterDy2(n) * CenterDy2(n)

\* C12 as claimed: a sticky note that contains the target is returned instead
\* of a closer-center text markup that does not contain it
C12_ContainingNoteOutranksMarkup ==
    (Answered /\ NoteContainsMarkupCloser)
    => (closest.id \in NoteLike /\ TargetWithin(closest.id))

\* C12 as amended: containment beats distance within the chosen partition
\* only; when a markup-like candidate exists a sticky note is never returned,
\* even if it contains the target and no markup-like candidate does, and a
\* markup-like candidate that contains the target is returned if there is one
C12_ContainmentWithinPartition ==
    (Answered /\ MarkupLike # {})
    => /\ closest.id \in MarkupLike
       /\ NoteContainsMarkupCloser => ~TargetWithin(closest.id)
       /\ (\E m \in MarkupLike : TargetWithin(m)) => TargetWithin(closest.id)

C12_Witness ==
    /\ Answered
    /\ Len(annots) = 2
    /\ annots[1] = [id |-> 1, subtype |-> "Text", rect |-> <<0, 0, 8, 2>>]
    /\ annots[2] = [id |-> 2, subtype |-> "Highlight", rect |-> <<2, 0, 4, 2>>]
    /\ target = [left |-> 1, top |-> 1]
    /\ closest.id = 2

\* C13: with no markup-like candidate and exactly one sticky note containing
\* the target, that note is returned, however close the centers of the other
\* sticky notes are
C13_OnlyContainingNoteReturned ==
    (Answered /\ MarkupLike = {})
    => \A n \in NoteLike :
          (TargetWithin(n) /\ \A k \in NoteLike \ {n} : ~TargetWithin(k))
          => closest.id = n

C13_Witness ==
    /\ Answered
    /\ Len(annots) = 2
    /\ annots[1] = [id |-> 1, subtype |-> "Text", rect |-> <<2, 0, 4, 2>>]
    /\ annots[2] = [id |-> 2, subtype |-> "Text", rect |-> <<0, 0, 8, 2>>]
    /\ target = [left |-> 1, top |-> 1]
    /\ closest.id = 2

CandidateIds ==
    { closest.candidates[k].id : k \in 1..Len(closest.candidates) } \cup
    { closest.textAnnotationCandidates[k].id :
          k \in 1..Len(closest.textAnnotationCandidates) }

\* the annotations whose rect has at least four components
WithRect == SelectSeq(annots, LAMBDA a : Len(a.rect) >= 4)

\* C14 as claimed: an annotation whose rect has not exactly four components
\* is never returned
C14_OnlyFourComponentRects ==
    (Answered /\ closest.id # NullId) => Len(annots[closest.id].rect) = 4

\* C14 as amended: an annotation whose rect has fewer than four components is
\* in neither partition, is never returned, and the result is the one for
\* the list without such annotations; every other annotation is a candidate
C14_ShortRectExcluded ==
    Answered =>
       /\ CandidateIds = { i \in 1..Len(annots) : Len(annots[i].rect) >= 4 }
       /\ closest.id # NullId => Len(annots[closest.id].rect) >= 4
       /\ closest.id = findClosestAnnotationToOffset(TRUE, WithRect, target)

C14_Witness ==
    /\ Answered
    /\ Len(annots) = 3
    /\ annots[1] = [id |-> 1, subtype |-> "Highlight", rect |-> <<0, 0, 2>>]
    /\ annots[2].rect = <<0, 0, 2, 2, 9>>
    /\ annots[2].subtype = "Link"
    /\ annots[3].rect = <<2, 0, 4, 2>>
    /\ closest.id = 2

AllCandidates == closest.candidates \o closest.textAnnotationCandidates

\* C15: containsPoint is true iff both target coordinates are given and the
\* target lies within the rect, edges included; distance is 0 if
\* containsPoint, else the Euclidean distance to the center when both
\* coordinates are given, else the absolute difference on the one given axis
C15_ContainsPointAndDistance ==
    Answered =>
       \A k \in 1..Len(AllCandidates) :
          /\ AllCandidates[k].containsPoint = TargetWithin(AllCandidates[k].id)
          /\ TargetGiven =>
                AllCandidates[k].distance = TargetDistance(AllCandidates[k].id)

C15_Witness ==
    /\ Answered
    /\ target = [left |-> 2, top |-> 1]
    /\ Len(closest.candidates) = 2
    /\ annots[closest.candidates[1].id].rect = <<2, 0, 4, 2>>
    /\ closest.candidates[1].containsPoint
    /\ closest.candidates[1].distance = 0
    /\ annots[closest.candidates[2].id].rect = <<0, 0, 8, 2>>

Decode(l, throws) ==
    IF l.kind = "wikilink" THEN resolveWikilink(l, throws)
    ELSE resolveInternalLink(l, throws)

\* the pairs the decoder is given: a wikilink whose '#' comes first, or that
\* has none, has no subpath
GivenPairs ==
    IF link.kind = "wikilink" /\ link.path = "" THEN <<>> ELSE link.pairs

HasKey(pairs, key) == \E i \in 1..Len(pairs) : pairs[i].key = key

\* the value given under a key, <<"">> if the key is not there
ValueOf(pairs, key) ==
    IF HasKey(pairs, key)
    THEN pairs[CHOOSE i \in 1..Len(pairs) : pairs[i].key = key].value
    ELSE <<"">>

\* a component that is a decimal number, blanks around it aside
IsDecimal(s) == s \in {"0", "1", "2", "3", "4", "5", "6", "9", "100", "200"}

\* a component that starts with a decimal number
BeginsWithNumber(s) == IsDecimal(s) \/ s = "4x"

NumberOf(s) ==
    CASE s \in {"4", "4x"} -> 4
      [] s = "0" -> 0 [] s = "1" -> 1 [] s = "2" -> 2 [] s = "3" -> 3
      [] s = "5" -> 5 [] s = "6" -> 6 [] s = "9" -> 9
      [] s = "100" -> 100 [] s = "200" -> 200

IsBlank(s) == s \in {"", " "}

Component(value, k) == IF k <= Len(value) THEN value[k] ELSE ""

Decoded == resolved.done /\ ~resolved.value.null

\* the link with another value for the pair of index i
WithValue(l, i, v) == [l EXCEPT !.pairs[i].value = v]

Rearrangements(pairs) ==
    { [i \in 1..Len(pairs) |-> pairs[f[i]]] :
        f \in { g \in [1..Len(pairs) -> 1..Len(pairs)] :
                  \A i, j \in 1..Len(pairs) : g[i] = g[j] => i = j } }

\* C19: every rearrangement of the pairs of a subpath decodes to the same
\* result, in resolveInternalLink and in resolveWikilink
C19_OrderIndependent ==
    resolved.done =>
       \A q \in Rearrangements(link.pairs) :
          Decode([link EXCEPT !.pairs = q], resolved.threw) = resolved.value

\* C20: an empty component of an offset value leaves its sub-field undefined
\* (not 0, not NaN): ',T,' gives {top: T}, 'L,,' gives {left: L}, and an
\* offset whose left and top are both empty or non-numeric gives no offset
C20_EmptyOffsetComponentUndefined ==
    (Decoded /\ HasKey(GivenPairs, "offset"))
    => LET o == ValueOf(GivenPairs, "offset")
           left == Component(o, 1)
           top == Component(o, 2) IN
       /\ resolved.value.offset.left # NaN /\ resolved.value.offset.top # NaN
       /\ IsBlank(left) => resolved.value.offset.left = Undef
       /\ IsBlank(top) => resolved.value.offset.top = Undef
       /\ (IsBlank(left) /\ IsDecimal(top))
             => resolved.value.offset =
                   [defined |-> TRUE, left |-> Undef, top |-> NumberOf(top)]
       /\ (IsDecimal(left) /\ IsBlank(top))
             => resolved.value.offset =
                   [defined |-> TRUE, left |-> NumberOf(left), top |-> Undef]
       /\ (~BeginsWithNumber(left) /\ ~BeginsWithNumber(top))
             => resolved.value.offset = NoOffset

C20_Witness ==
    /\ Decoded
    /\ link.kind = "wikilink"
    /\ link.pairs = << [key |-> "page", value |-> <<"3">>],
                       [key |-> "offset", value |-> <<"", "6", "">>] >>
    /\ resolved.value.offset = [defined |-> TRUE, left |-> Undef, top |-> 6]

\* the destination record a token was written for: the page and the offset
\* of the viewer state (a viewer state has no annotation id and no rect)
Encoded == resolved.done /\ ~resolved.threw /\ view.by # "none"

\* C21: decoding the token an encoder wrote for a destination record gives
\* the record back field for field: the same page, the same offset left and
\* top (an undefined one staying undefined), and nothing else
C21_RoundTrip ==
    Encoded =>
       /\ ~resolved.value.null
       /\ resolved.value.page = view.page
       /\ resolved.value.offset.left = view.left
       /\ resolved.value.offset.top = view.top
       /\ resolved.value.offset.defined <=> (view.left # Undef \/ view.top # Undef)
       /\ resolved.value.annotationId = NoId
       /\ resolved.value.rect = NoRect

\* the keys of the token grammar
KnownKeys == {"page", "annotation", "offset", "rect"}
KnownKey(pair) == pair.key \in KnownKeys

\* C22: a pair whose key is not exactly page, annotation, offset or rect
\* changes no field of the decoded record: the result is that of the link
\* without such pairs
C22_UnknownKeysIgnored ==
    (resolved.done /\ ~link.alias) =>
        resolved.value =
            Decode([link EXCEPT !.pairs = SelectSeq(link.pairs, KnownKey)],
                   resolved.threw)

\* C23: for a link text with a '#', wherever it stands, the path handed to
\* the path-resolution collaborator is the text before the first '#' and the
\* subpath decoded is the text from that '#' on
C23_SplitAtFirstHash ==
    ( /\ resolved.done /\ ~resolved.threw
      /\ link.kind = "wikilink" /\ link.hashed /\ ~link.alias )
    => /\ resolved.filePath = link.path
       /\ resolved.subpath = link.pairs

\* C24: a '|alias' segment before the closing brackets is taken off before
\* the path is resolved and the subpath decoded: the link with the alias
\* resolves to what the link without it resolves to
C24_AliasStripped ==
    (resolved.done /\ link.kind = "wikilink" /\ link.alias) =>
        resolved.value = resolveWikilink([link EXCEPT !.alias = FALSE], resolved.threw)

\* C25: the embed form '![[X]]' of a wikilink is taken for a wikilink like
\* the plain form '[[X]]' and resolves to the same target
C25_EmbedAsPlain ==
    (link.kind = "wikilink" /\ link.embed) =>
       /\ resolved.via # "unhandled"
       /\ resolved.done =>
             resolved.value =
                 resolveWikilink([link EXCEPT !.embed = FALSE], resolved.threw)
       /\ libResolved.done =>
             libResolved.value =
                 libResolveWikilink([link EXCEPT !.embed = FALSE], libResolved.threw)

\* C26: resolveWikilink returns null when the path-resolution collaborator
\* finds no file for the path it is asked (a dangling link) and when an
\* exception is raised while resolving; it always returns, either null or a
\* result with a file
C26_NullWhenUnresolved ==
    (resolved.done /\ link.kind = "wikilink") =>
       /\ resolved.threw => resolved.value.null
       /\ getFirstLinkpathDest(resolved.filePath) = NoFile => resolved.value.null
       /\ link.path = "Gone.pdf" => resolved.value.null
       /\ ~resolved.value.null =>
             /\ resolved.value.file # NoFile
             /\ resolved.value.file = getFirstLinkpathDest(resolved.filePath)

\* the dangling link '[[Gone.pdf#page=3]]' has been resolved, no exception
C26_Witness ==
    /\ resolved.done /\ ~resolved.threw
    /\ link.kind = "wikilink" /\ link.path = "Gone.pdf"
    /\ link.pairs = << [key |-> "page", value |-> <<"3">>] >>
    /\ resolved.filePath = "Gone.pdf"
    /\ resolved.value = NullResult

\* C27: a wikilink whose file resolves gets page 1 when its subpath has no
\* page key (or when it has no subpath), and the integer of the page key
\* when there is one with a decimal integer
C27_DefaultPageOne ==
    (resolved.done /\ link.kind = "wikilink" /\ ~link.alias /\ ~resolved.value.null) =>
       /\ ~HasKey(link.pairs, "page") => resolved.value.page = 1
       /\ (HasKey(link.pairs, "page") /\ IsDecimal(ValueOf(link.pairs, "page")[1]))
             => resolved.value.page = NumberOf(ValueOf(link.pairs, "page")[1])

\* the number a component stands for, Undef if it starts with none
NumberOrUndef(s) == IF BeginsWithNumber(s) THEN NumberOf(s) ELSE Undef

\* the offset and the rect a subpath spells out
SpelledOffset(pairs) ==
    LET o == ValueOf(pairs, "offset")
        left == NumberOrUndef(Component(o, 1))
        top == NumberOrUndef(Component(o, 2)) IN
    [defined |-> left # Undef \/ top # Undef, left |-> left, top |-> top]

SpelledRect(pairs) ==
    LET r == ValueOf(pairs, "rect") IN
    IF Len(r) = 4 /\ \A k \in 1..4 : BeginsWithNumber(r[k])
    THEN [defined |-> TRUE, left |-> NumberOf(r[1]), bottom |-> NumberOf(r[2]),
          right |-> NumberOf(r[3]), top |-> NumberOf(r[4])]
    ELSE NoRect

\* C28: the result of resolveInternalLink names the source file as the
\* target file, and its page, annotation id, offset and rect are those the
\* destination's subpath spells out, nothing added and nothing dropped
C28_SameDocumentCopiedThrough ==
    (resolved.done /\ link.kind = "internal" /\ ~resolved.value.null) =>
       /\ resolved.value.file = SourceFile
       /\ link.pairs[1].key = "page"
       /\ resolved.value.page = NumberOf(link.pairs[1].value[1])
       /\ resolved.value.annotationId = ValueOf(link.pairs, "annotation")[1]
       /\ resolved.value.offset = SpelledOffset(link.pairs)
       /\ resolved.value.rect = SpelledRect(link.pairs)

\* '#page=3&offset=5,6,1&rect=1,2,3,4' has been resolved for A.pdf
C28_Witness ==
    /\ resolved.done
    /\ link.kind = "internal"
    /\ link.pairs = << [key |-> "page", value |-> <<"3">>],
                       [key |-> "offset", value |-> <<"5", "6", "1">>],
                       [key |-> "rect", value |-> <<"1", "2", "3", "4">>] >>
    /\ resolved.value =
           Result("A.pdf", 3, NoId, [defined |-> TRUE, left |-> 5, top |-> 6],
                  [defined |-> TRUE, left |-> 1, bottom |-> 2, right |-> 3, top |-> 4])

\* C29: a wikilink '[[P#page=N&offset=L,T,Z]]' whose path P resolves to a
\* file F gives {file: F, page: N, offset: {left: L, top: T}}, annotationId
\* and rect undefined; the zoom Z is not part of the result
C29_PageAndOffsetScenario ==
    ( /\ resolved.done /\ ~resolved.threw
      /\ link.kind = "wikilink" /\ ~link.alias /\ link.hashed
      /\ link.path = "Notes.pdf"
      /\ Len(link.pairs) = 2
      /\ link.pairs[1].key = "page" /\ IsDecimal(link.pairs[1].value[1])
      /\ link.pairs[2].key = "offset" /\ Len(link.pairs[2].value) = 3
      /\ IsDecimal(link.pairs[2].value[1]) /\ IsDecimal(link.pairs[2].value[2]) )
    => resolved.value =
           [null |-> FALSE, file |-> "Notes.pdf",
            page |-> NumberOf(link.pairs[1].value[1]),
            annotationId |-> NoId,
            offset |-> [defined |-> TRUE,
                        left |-> NumberOf(link.pairs[2].value[1]),
                        top |-> NumberOf(link.pairs[2].value[2])],
            rect |-> NoRect]

\* '[[Notes.pdf#page=5&offset=100,200,1.5]]' has been resolved from A.pdf
C29_Witness ==
    /\ resolved.done
    /\ link = ScenarioLink
    /\ resolved.value =
           [null |-> FALSE, file |-> "Notes.pdf", page |-> 5, annotationId |-> NoId,
            offset |-> [defined |-> TRUE, left |-> 100, top |-> 200],
            rect |-> NoRect]

\* an offset with both components has gone through both conversions
RoundTripped ==
    /\ conv.stage = "placed"
    /\ conv.offset.left # Undef /\ conv.offset.top # Undef

\* C30 as claimed: the position highlightLocation computes for a document
\* point (viewport mapping plus insets), converted back by
\* addStickyNoteAtPosition (minus bounding-box origin and insets, inverse
\* viewport mapping), is the document point again
C30_RoundTrip ==
    (RoundTripped /\ conv.handed = "style") =>
        conv.pdf = [x |-> conv.offset.left, y |-> conv.offset.top]

\* C30 as amended: the position highlightLocation computes is relative to
\* the page element; taken from the bounding-box origin of the page
\* element it is a screen point that addStickyNoteAtPosition converts back
\* to the document point, and taken as it is the result is off by the
\* inverse-mapped origin
C30_RoundTripFromOrigin ==
    RoundTripped =>
       /\ conv.shown =
              [x |-> convertToViewportPoint(conv.frame.viewport, conv.offset.left,
                                            conv.offset.top).x
                     + conv.frame.borderLeft + conv.frame.paddingLeft,
               y |-> convertToViewportPoint(conv.frame.viewport, conv.offset.left,
                                            conv.offset.top).y
                     + conv.frame.borderTop + conv.frame.paddingTop]
       /\ conv.handed = "screen" =>
             conv.pdf = [x |-> conv.offset.left, y |-> conv.offset.top]
       /\ (conv.handed = "style" /\ conv.frame.viewport.scale = 1
           /\ ~conv.frame.viewport.flipped) =>
             conv.pdf = [x |-> conv.offset.left - conv.frame.left,
                         y |-> conv.offset.top - conv.frame.top]

\* origin (10, 20), no border, no padding, identity viewport, p = (100, 200):
\* the indicator is at (100, 200) in the page element, (110, 220) on screen
C30_Witness ==
    /\ RoundTripped
    /\ conv.handed = "screen"
    /\ conv.frame = [left |-> 10, top |-> 20, borderLeft |-> 0, borderTop |-> 0,
                     paddingLeft |-> 0, paddingTop |-> 0,
                     viewport |-> [scale |-> 1, flipped |-> FALSE, height |-> 0]]
    /\ conv.offset = [left |-> 100, top |-> 200]
    /\ conv.shown = [x |-> 100, y |-> 200]
    /\ conv.pdf = [x |-> 100, y |-> 200]

\* ---------------------------------------------------------------- C37
\* the destination field holds nothing once trimmed
EmptyExternal(m) ==
    m.destType = "external" /\ TrimmedDest(m.externalUrl) = "empty"

\* C37: submit() with link type 'external' and an empty or whitespace-only
\* destination never invokes onSubmit and leaves the modal open; every other
\* submit() invokes onSubmit exactly once with a non-empty destination and
\* closes the modal
C37_EmptyDestinationRejected ==
    [][ModalSubmit =>
          IF EmptyExternal(modal)
          THEN /\ modal'.onSubmitCalls = modal.onSubmitCalls
               /\ modal'.open
          ELSE /\ modal'.onSubmitCalls = modal.onSubmitCalls + 1
               /\ modal'.lastDest # "empty"
               /\ ~modal'.open]_vars

\* ---------------------------------------------------------------- C38
\* the array the result is taken from (lines 800-821)
ChosenCandidates ==
    IF Len(closest.candidates) > 0 THEN closest.candidates
    ELSE closest.textAnnotationCandidates

\* two candidates tie on (containsPoint, isTextMarkup, distance)
Tie(a, b) ==
    /\ a.containsPoint = b.containsPoint
    /\ a.isTextMarkup = b.isTextMarkup
    /\ a.distance = b.distance

\* C38: findClosestAnnotationToOffset is deterministic: the id depends on the
\* candidate list and the target only, and among candidates that tie on
\* (containsPoint, isTextMarkup, distance) the first of the supplied list is
\* returned, also for a target with neither left nor top
C38_TiesGoToTheFirst ==
    (Answered /\ closest.id # NullId)
    => /\ closest.id = findClosestAnnotationToOffset(TRUE, annots, target)
       /\ \E k \in 1..Len(ChosenCandidates) :
             /\ ChosenCandidates[k].id = closest.id
             /\ \A j \in 1..Len(ChosenCandidates) :
                   Tie(ChosenCandidates[j], ChosenCandidates[k]) => k <= j

\* a tie that the first candidate of the list does not take part in, for a
\* target with neither left nor top
C38_Witness ==
    /\ Answered
    /\ target = [left |-> Undef, top |-> Undef]
    /\ Len(annots) = 3
    /\ annots[1].subtype = "Link" /\ Len(annots[1].rect) >= 4
    /\ annots[2] = [id |-> 2, subtype |-> "Highlight", rect |-> <<2, 0, 4, 2>>]
    /\ annots[3] = [id |-> 3, subtype |-> "Highlight", rect |-> <<0, 0, 8, 2>>]
    /\ Tie(closest.candidates[2], closest.candidates[3])
    /\ closest.id = 2

\* ---------------------------------------------------------------- C39
\* what the results of the two versions have in common
Shared(value) ==
    [null |-> value.null, file |-> value.file, page |-> value.page,
     annotationId |-> value.annotationId]

\* C39: for every wikilink that is not an embed, resolveWikilink of part_000
\* returns null exactly when resolveWikilink of lib/shift-hover-manager.ts
\* does, and otherwise the same file, page and annotationId; only offset and
\* rect are added
C39_VersionsAgree ==
    (link.kind = "wikilink" /\ ~link.embed) =>
       /\ (resolved.done /\ resolved.via = "call") =>
             Shared(resolved.value)
                = Shared(libResolveWikilink(link, resolved.threw))
       /\ libResolved.done =>
             /\ Shared(libResolved.value)
                   = Shared(resolveWikilink(link, libResolved.threw))
             /\ libResolved.value.offset = NoOffset
             /\ libResolved.value.rect = NoRect

\* the lib version has resolved a link with an annotation id for which the
\* part_000 version adds an offset
C39_Witness ==
    /\ link.kind = "wikilink" /\ ~link.embed
    /\ libResolved.done /\ ~libResolved.threw
    /\ ~libResolved.value.null
    /\ libResolved.value.annotationId # NoId
    /\ libResolved.value.page = 3
    /\ resolveWikilink(link, FALSE).offset # NoOffset

\* ---------------------------------------------------------------- C31
\* C31: the shift-mode flag is set on Shift key-down and cleared on Shift
\* key-up or on losing focus: isActive() is true only if a Shift key-down has
\* occurred with no later Shift key-up and no later loss of focus
C31_ClearedOnKeyupOrFocusLoss ==
    isShiftPressed => shiftHistory = "down"

\* ---------------------------------------------------------------- C32
\* no element carries a highlight and currentHighlight is null
NoHighlightShown ==
    /\ highlight.currentHighlight = NoHighlight
    /\ highlight.highlighted = {}
    /\ highlight.overlays = {}

\* C32: whenever shift mode is inactive after a Shift key-up, no shift-hover
\* highlight is present and none appears until Shift is pressed again,
\* whatever the order of mouseover, the resolution it awaits, mouseleave and
\* key-up; no resolution is still awaited once shift mode is inactive
C32_NoHighlightWhileInactive ==
    ~isShiftPressed => (NoHighlightShown /\ ~pending.waiting)

\* a mouseover on a link that names an element of an open viewer has run to
\* its end after the Shift key-up that removed the highlight of that element
C32_Witness ==
    /\ shiftHistory = "up" /\ ~isShiftPressed
    /\ lastEvent = "mouseover" /\ EventLoopIdle
    /\ workspace.childFile
    /\ link.path = "Notes.pdf" /\ "Notes.pdf" \in workspace.openViewers
    /\ ~ResolveWikilinkOf(version, link, FALSE).null
    /\ ResolveWikilinkOf(version, link, FALSE).annotationId \in LayerIds
    /\ version = "part_000"
    /\ highlight.annotationLayer # AnnotationElements
    /\ NoHighlightShown

\* ---------------------------------------------------------------- C33
\* C33: clearHighlight after highlightAnnotation removes only the highlight
\* styling: the set of annotation elements in the layers is the same after
\* any sequence of highlightAnnotation / clearHighlight calls, so a later
\* highlightAnnotation for the same id finds its element again
C33_ElementStaysInLayer ==
    highlight.annotationLayer = AnnotationElements

\* ---------------------------------------------------------------- C34
\* C34: every click event on a wikilink annotation, on the anchor or on the
\* container itself, makes exactly one openLinkText call, however often the
\* listeners are registered, and the link text passed has neither the
\* brackets nor the alias
C34_OneOpenPerClick ==
    lastEvent = "click" =>
       /\ opened.calls = 1
       /\ ~opened.linktext.alias
       /\ opened.linktext.path = link.path
       /\ opened.linktext.hashed = link.hashed
       /\ opened.linktext.pairs = link.pairs

\* a click on the anchor of an annotation whose listeners are registered
\* twice and whose link has an alias
C34_Witness ==
    /\ lastEvent = "click"
    /\ opened.clicked = "anchor"
    /\ opened.listeners >= 4
    /\ link.alias
    /\ opened.calls = 1

\* ---------------------------------------------------------------- C35
\* the elements that carry a highlight: the highlight class or an overlay
Carriers == highlight.highlighted \cup highlight.overlays

\* C35: at most one shift-hover highlight exists at any moment, and
\* currentHighlight is non-null exactly when some element carries a
\* highlight, which is the element it references
C35_AtMostOneHighlight ==
    /\ Cardinality(Carriers) <= 1
    /\ (highlight.currentHighlight # NoHighlight) <=> (Carriers # {})
    /\ Carriers \subseteq {highlight.currentHighlight}

\* a location highlight has taken the place of an annotation highlight
C35_Witness ==
    /\ lastEvent = "highlightLocation"
    /\ highlight.currentHighlight.id = OverlayId
    /\ highlight.annotationLayer # AnnotationElements
    /\ Carriers = {highlight.currentHighlight}

\* ---------------------------------------------------------------- C36
\* C36: a mouseover on a wikilink annotation changes the highlight state only
\* if shift mode is active, the source viewer has a file, the wikilink
\* resolves to a file, the link names an annotation id and a viewer for the
\* target file is open; in every other case the highlight is left as it is
C36_MouseoverFrame ==
    [][(lastEvent' = "mouseover" /\ highlight' # highlight) =>
          /\ isShiftPressed
          /\ workspace.childFile
          /\ pending.waiting
          /\ ~pending.value.null
          /\ pending.value.annotationId # NoId
          /\ findViewerForFile(workspace.openViewers, pending.value.file)]_vars

\* a mouseover has put the highlight on the element the link names
C36_Witness ==
    /\ lastEvent = "mouseover" /\ EventLoopIdle
    /\ highlight.currentHighlight \in AnnotationElements
    /\ highlight.highlighted = {highlight.currentHighlight}

====
